---------------------------- MODULE Spec2Model ----------------------------
(***************************************************************************)
(* Model of the multi-column Plookup argument (ProveLookupTables /         *)
(* VerifyLookupTables) and of the Ring-SIS hash (RSis) of gnark-crypto.    *)
(*                                                                         *)
(* The scalar field is scaled down from the 254/377-bit curve fields to    *)
(* the Fermat prime field F_257: it has two-adicity 8 (the code's field    *)
(* has 28), so every power-of-two NTT domain up to 256 points and its      *)
(* coset by a square root of the generator exist, and a field element is   *)
(* serialized on two bytes while its modulus is 9 bits long (as 254 bits   *)
(* against 32 bytes in the code: the bit length is no multiple of 8).      *)
(* Arrays are sequences; At(a, i) reads Go's 0-based a[i].                 *)
(***************************************************************************)
EXTENDS Integers, Sequences, FiniteSets, TLC

\* ------------------------------------------------------------------ bounds

\* Largest logTwoDegree an instance is built with (d = 2^logTwoDegree).
MaxLogTwoDegree == 1
\* Largest keySize an instance is built with.
MaxKeySize == 2
\* Largest number of bytes one Write call carries.
MaxWrite == 2
\* Largest number of bytes the buffer holds before Write is refused.
MaxBuffer == 2

\* Byte values the callers write (all 8 bits are in use among them).
ByteVals == {161, 90}
\* logTwoBound values an instance is built with: below, at and above one
\* byte, byte-aligned products and products that are not.
LogTwoBounds == {2, 3, 4, 8, 12}
\* Seeds of the pseudo-random key.
Seeds == {5}
\* Prefixes handed to Sum.
Prefixes == {<< >>, <<7>>}

\* ------------------------------------------------------------ field service

\* The modulus of fr: the model's field is F_257.
Modulus == 257
\* The two-adicity the shift is derived from: 28 in the code, 8 in F_257.
TwoAdicity == 8
\* A primitive 2^TwoAdicity-th root of unity (3 generates F_257^*).
RootOfUnity == 3

At(a, i) == a[i + 1]

\* F applied to the value of e, computed once.
With(e, F(_)) == CHOOSE y \in {F(v) : v \in {e}} : TRUE

RECURSIVE Pow2(_)
Pow2(n) == IF n <= 0 THEN 1 ELSE 2 * Pow2(n - 1)

FAdd(a, b) == (a + b) % Modulus
FMul(a, b) == (a * b) % Modulus
FNeg(a) == (Modulus - (a % Modulus)) % Modulus

RECURSIVE FExp(_, _)
FExp(a, e) ==
    IF e = 0 THEN 1
    ELSE IF e % 2 = 0 THEN FExp(FMul(a, a), e \div 2)
    ELSE FMul(a, FExp(FMul(a, a), e \div 2))

FInverse(a) == FExp(a, Modulus - 2)

\* fr.Modulus().BitLen()
RECURSIVE BitLen(_)
BitLen(n) == IF n = 0 THEN 0 ELSE 1 + BitLen(n \div 2)

\* fr.Bytes: the width of a serialized element.
FrBytes == (BitLen(Modulus) + 7) \div 8

\* Element.SetBytes: the big-endian integer of buf, reduced modulo the field.
RECURSIVE BigEndian(_)
BigEndian(buf) ==
    IF Len(buf) = 0 THEN 0
    ELSE 256 * BigEndian(SubSeq(buf, 1, Len(buf) - 1)) + buf[Len(buf)]

FrSetBytes(buf) == BigEndian(buf) % Modulus

\* Element.Bytes: the canonical value, big-endian on FrBytes bytes.
RECURSIVE BigEndianBytes(_, _)
BigEndianBytes(x, n) ==
    IF n = 0 THEN << >> ELSE BigEndianBytes(x \div 256, n - 1) \o <<x % 256>>

FrToBytes(x) == BigEndianBytes(x, FrBytes)

\* Sum over a sequence of field elements.
RECURSIVE FSum(_)
FSum(s) == IF Len(s) = 0 THEN 0 ELSE FAdd(s[1], FSum(Tail(s)))

\* -------------------------------------------------------------- NTT service

RECURSIVE Log2(_)
Log2(n) == IF n <= 1 THEN 0 ELSE 1 + Log2(n \div 2)

\* ecc.NextPowerOfTwo
RECURSIVE NextPowerOfTwo(_, _)
NextPowerOfTwo(n, p) == IF p >= n THEN p ELSE NextPowerOfTwo(n, 2 * p)

\* The index k of nbBits bits with its bits reversed.
RECURSIVE RevBits(_, _)
RevBits(k, nbBits) ==
    IF nbBits = 0 THEN 0
    ELSE (k % 2) * Pow2(nbBits - 1) + RevBits(k \div 2, nbBits - 1)

\* fft.BitReverse: the bit-reversal permutation of a power-of-two vector.
BitReverse(a) ==
    [k \in 1..Len(a) |-> At(a, RevBits(k - 1, Log2(Len(a))))]

\* fft.NewDomain(m, shift): the subgroup of NextPowerOfTwo(m) points and the
\* coset shift.
NewDomain(m, shift) ==
    LET n == NextPowerOfTwo(m, 1)
        g == FExp(RootOfUnity, Pow2(TwoAdicity - Log2(n)))
    IN  [Cardinality |-> n, Generator |-> g, GeneratorInv |-> FInverse(g),
         CardinalityInv |-> FInverse(n % Modulus),
         Shift |-> shift, ShiftInv |-> FInverse(shift)]

\* sum_j a[j] * x^j
RECURSIVE EvalPoly(_, _)
EvalPoly(a, x) ==
    IF Len(a) = 0 THEN 0 ELSE FAdd(a[1], FMul(x, EvalPoly(Tail(a), x)))

\* a[j] * s^j for every j.
ScaleByPowers(a, s) == [j \in 1..Len(a) |-> FMul(a[j], FExp(s, j - 1))]

\* Domain.FFT(a, DIF, coset): natural-order coefficients in, evaluations on
\* the (coset of the) subgroup out, in bit-reversed index order.
FFT(dom, a, coset) ==
    With(IF coset THEN ScaleByPowers(a, dom.Shift) ELSE a, LAMBDA b :
    With([k \in 1..Len(b) |-> EvalPoly(b, FExp(dom.Generator, k - 1))],
         LAMBDA ev : BitReverse(ev)))

\* The inverse transform of natural-order evaluations, natural order out.
InverseDFT(dom, v) ==
    With(v, LAMBDA w :
        [j \in 1..Len(w) |->
            FMul(dom.CardinalityInv,
                 EvalPoly(w, FExp(dom.GeneratorInv, j - 1)))])

\* Domain.FFTInverse(a, DIF, no coset): natural-order evaluations in,
\* coefficients out in bit-reversed index order.
FFTInverseDIF(dom, v) == BitReverse(InverseDFT(dom, v))

\* Domain.FFTInverse(a, DIT, coset): bit-reversed evaluations on the coset
\* in, natural-order coefficients out.
FFTInverseDIT(dom, v, coset) ==
    With(InverseDFT(dom, BitReverse(v)), LAMBDA c :
        IF coset THEN ScaleByPowers(c, dom.ShiftInv) ELSE c)


\* -------------------------------------------------------------------- state

VARIABLES
    phase,  \* "input", "proved" (ProveLookupTables has returned), "verified"
    inF,    \* f, the query tables handed to ProveLookupTables
    inT,    \* t, the reference tables handed to ProveLookupTables
    srs,    \* the commitment key: size (number of G1 points) and tau
    oracle, \* the error the single-column prover answers with ("nil": none)
    prove,  \* what ProveLookupTables returned and did (none before the call)
    proof,  \* the proof in transit to the verifier
    verify  \* what VerifyLookupTables returned and did (none before the call)

lookupVars == <<phase, inF, inT, srs, oracle, prove, proof, verify>>

VARIABLES
    r,      \* the RSis instance: buffer, A, AfftCosetBitreversed, LogTwoBound,
            \* NbBytesToSum, Domain, Degree
    cfg,    \* the arguments NewRSis was called with
    hist,   \* what happened to the buffer since it was last set: origin
            \* ("new", "reset", "sum"), base (the buffer then), written (the
            \* bytes of the Write calls since, in order), nbWrites, hadSum
    last    \* the last call: op, arg, ret, before (r.buffer at the call),
            \* hist (hist at the call)

sisVars == <<r, cfg, hist, last>>

VARIABLES
    codec   \* a run of the point encoding: phase, curve (the instance of the
            \* template), root (the root fp's Sqrt returns), p (the point),
            \* via (what produced buf), buf, out (what SetBytes returned)

VARIABLES
    race    \* SetBytes run statement by statement by one or two goroutines
            \* on one buf: curve, root, orig (buf at the calls), buf, and
            \* each caller's position, locals and return values

pointVars == <<codec, race>>

vars ==
    <<phase, inF, inT, srs, oracle, prove, proof, verify, r, cfg, hist, last,
      codec, race>>

Zeros(n) == [k \in 1..n |-> 0]

\* ------------------------------------------------------- commitment service

\* kzg.Commit(p, srs): the commitment [p(tau)]G1, held as its discrete
\* logarithm p(tau); refused for an empty polynomial and for one longer
\* than the key.
Commit(p, key) ==
    IF Len(p) = 0 \/ Len(p) > key.size
    THEN [err |-> "ErrInvalidPolynomialSize", digest |-> 0]
    ELSE [err |-> "nil", digest |-> EvalPoly(p, key.tau)]

\* Digest.ScalarMultiplication(a, s) and Digest.Add(a, b)
DigestScalarMultiplication(a, s) == FMul(s, a)
DigestAdd(a, b) == FAdd(a, b)

\* G1Affine.RawBytes of a digest: an injective fixed-width encoding.
DigestRawBytes(c) == FrToBytes(c)

\* --------------------------------------------------------------- transcript

\* sha256 is an external primitive; its place is taken by a multiplicative
\* mixing of the input bytes.
RECURSIVE Sha256(_, _)
Sha256(bytes, h) ==
    IF Len(bytes) = 0 THEN <<h \div 256, h % 256>>
    ELSE Sha256(Tail(bytes), (h * 239 + bytes[1] + 1) % 65521)

\* fiatshamir.NewTranscript(h, label)
NewTranscript(label) ==
    [label |-> label, bindings |-> << >>, computed |-> FALSE]

\* Transcript.Bind(label, bytes): refused for an unknown label and after
\* the challenge has been computed.
Bind(tr, label, bytes) ==
    IF tr.label # label
    THEN [err |-> "ErrChallengeNotFound", tr |-> tr]
    ELSE IF tr.computed
    THEN [err |-> "ErrChallengeAlreadyComputed", tr |-> tr]
    ELSE [err |-> "nil",
          tr |-> [tr EXCEPT !.bindings = Append(@, bytes)]]

RECURSIVE Flatten(_)
Flatten(ss) == IF Len(ss) = 0 THEN << >> ELSE ss[1] \o Flatten(Tail(ss))

\* Transcript.ComputeChallenge(label): the hash of the label and of the
\* bindings in the order they were bound.
ComputeChallenge(tr, label) ==
    IF tr.label # label
    THEN [err |-> "ErrChallengeNotFound", value |-> << >>]
    ELSE [err |-> "nil",
          value |-> Sha256(<<Len(label)>> \o Flatten(tr.bindings), 1)]

\* The points bound from the last to the first.
RECURSIVE BindAllReversed(_, _, _)
BindAllReversed(tr, challenge, points) ==
    IF Len(points) = 0 THEN [err |-> "nil", tr |-> tr]
    ELSE With(Bind(tr, challenge, DigestRawBytes(points[Len(points)])),
              LAMBDA b :
            IF b.err # "nil" THEN b
            ELSE BindAllReversed(b.tr, challenge,
                                 SubSeq(points, 1, Len(points) - 1)))

\* The transcript after points[1..n] have been bound, or the first error.
RECURSIVE BindAll(_, _, _)
BindAll(tr, challenge, points) ==
    IF Len(points) = 0 THEN [err |-> "nil", tr |-> tr]
    ELSE With(Bind(tr, challenge, DigestRawBytes(points[1])), LAMBDA b :
            IF b.err # "nil" THEN b
            ELSE BindAll(b.tr, challenge, Tail(points)))

deriveRandomness(tr, challenge, points) ==
    With(BindAll(tr, challenge, points), LAMBDA bound :
        IF bound.err # "nil"
        THEN [err |-> bound.err, r |-> 0, bindings |-> bound.tr.bindings]
        ELSE With(ComputeChallenge(bound.tr, challenge), LAMBDA c :
            IF c.err # "nil"
            THEN [err |-> c.err, r |-> 0, bindings |-> bound.tr.bindings]
            ELSE [err |-> "nil", r |-> FrSetBytes(c.value),
                  bindings |-> bound.tr.bindings]))

\* ------------------------------------------------ single-column lookup oracle

\* row extended to n entries by repeating its last entry.
PadWithZeros(row, n) ==
    [j \in 1..n |-> IF j <= Len(row) THEN row[j] ELSE 0]

PadRepeatLast(row, n) ==
    [j \in 1..n |-> IF j <= Len(row) THEN row[j] ELSE row[Len(row)]]

\* d.FFTInverse(v, fft.DIF) followed by fft.BitReverse(v): the coefficients,
\* in natural order, of the polynomial with evaluations v on the domain.
ToCoefficients(dom, v) == BitReverse(FFTInverseDIF(dom, v))

Range(s) == {s[i] : i \in 1..Len(s)}

NoInnerProof == [f |-> 0, t |-> 0, accepts |-> FALSE]

\* ProveLookupVector(srs, f, t), f of n-1 entries and t of n: its f is the
\* commitment to f padded to n entries with repeat-last, and the proof is
\* one VerifyLookupVector accepts exactly when every entry of f is in t.
\* It is opaque: besides the commitment's error it may answer with an error
\* of its own, which is the run's oracle.
ProveLookupVector(key, fv, tv) ==
    LET dom == NewDomain(IF Len(tv) <= Len(fv) THEN Len(fv) + 1 ELSE Len(tv),
                         1)
        n == dom.Cardinality
        cf == Commit(ToCoefficients(dom, PadRepeatLast(fv, n)), key)
        ct == Commit(ToCoefficients(dom, PadRepeatLast(tv, n)), key)
    IN  IF cf.err # "nil" THEN [err |-> cf.err, proof |-> NoInnerProof]
        ELSE IF oracle # "nil" THEN [err |-> oracle, proof |-> NoInnerProof]
        ELSE [err |-> "nil",
              proof |-> [f |-> cf.digest, t |-> ct.digest,
                         accepts |-> Range(fv) \subseteq Range(tv)]]

VerifyLookupVector(key, inner) ==
    IF inner.accepts THEN "nil" ELSE "ErrPlookupVerification"

\* ----------------------------------------------------- multi-column Plookup

NoProof == [fs |-> << >>, foldedProof |-> NoInnerProof]

\* A step that scales the incoming entry instead of the accumulator.
FoldStepScalingInput(acc, lambda, x) == FAdd(acc, FMul(lambda, x))

\* One Horner step of the prover's fold.
FoldStep(acc, lambda, x) == FAdd(FMul(acc, lambda), x)

\* foldedf[i] after the inner loop has run over rows j = nbRows-1 .. row
\* (1-based), starting from the zero value.
RECURSIVE FoldColumn(_, _, _, _)
FoldColumn(rows, i, lambda, row) ==
    IF row > Len(rows) THEN 0
    ELSE FoldStep(FoldColumn(rows, i, lambda, row + 1), lambda, rows[row][i])

FoldRowsAscending(rows, nbColumns, lambda) ==
    [i \in 1..nbColumns |->
        FoldColumn([k \in 1..Len(rows) |-> rows[Len(rows) + 1 - k]],
                   i, lambda, 1)]

\* The fold of the rows (lfs or lts) into one vector of nbColumns entries.
FoldRows(rows, nbColumns, lambda) ==
    [i \in 1..nbColumns |-> FoldColumn(rows, i, lambda, 1)]

\* What a call that panics leaves: no return value.
Panicked(nbCommits) ==
    [err |-> "panic", proof |-> NoProof, nbCommits |-> nbCommits,
     innerCalled |-> FALSE, lambda |-> 0, nbColumns |-> 0,
     lfs |-> << >>, lts |-> << >>, foldedf |-> << >>, foldedt |-> << >>,
     innerArgs |-> [f |-> << >>, t |-> << >>], cfs |-> << >>,
     bindings |-> << >>]

\* A return before any row has been committed.
Refused(err) == [Panicked(0) EXCEPT !.err = err]

\* A target that forgets the extra entry of the query.
ColumnTargetWithoutExtra(ft, tt) ==
    IF Len(ft[1]) < Len(tt[1]) THEN Len(tt[1]) ELSE Len(ft[1])

\* _nbColumns: the number of entries the domain has to hold.
ColumnTarget(ft, tt) ==
    IF Len(ft[1]) + 1 < Len(tt[1]) THEN Len(tt[1]) ELSE Len(ft[1]) + 1

ProveLookupTables(key, ft, tt) ==
    IF Len(ft) # Len(tt) THEN Refused("ErrIncompatibleSize")
    ELSE IF Len(ft) = 0 THEN Panicked(0)                   \* len(f[0])
    ELSE IF \E i \in 2..Len(ft) : Len(ft[i]) # Len(ft[1])
    THEN Refused("ErrIncompatibleSize")
    ELSE IF \E i \in 2..Len(tt) : Len(tt[i]) # Len(tt[1])
    THEN Refused("ErrIncompatibleSize")
    ELSE
    LET nbRows == Len(tt)
        dom == NewDomain(ColumnTarget(ft, tt), 1)
        nbColumns == dom.Cardinality
    IN  \* the rows have one length each, so the first row decides whether
        \* the loop over the rows gets past its padding and its commitment
        IF Len(ft[1]) = 0 THEN Panicked(0)                 \* f[i][len(f[i])-1]
        ELSE
        With([i \in 1..nbRows |-> PadRepeatLast(ft[i], nbColumns)],
             LAMBDA lfs :
        With([i \in 1..nbRows |-> PadRepeatLast(ft[i], nbColumns)],
             LAMBDA cfs :
        With([i \in 1..nbRows |-> Commit(ToCoefficients(dom, cfs[i]), key)],
             LAMBDA commits :
        IF commits[1].err # "nil"
        THEN [Refused(commits[1].err) EXCEPT
                !.proof = [NoProof EXCEPT !.fs = Zeros(nbRows)],
                !.nbCommits = 1, !.nbColumns = nbColumns]
        ELSE IF Len(tt[1]) = 0                             \* t[i][len(t[i])-1]
        THEN [Panicked(1) EXCEPT !.nbColumns = nbColumns]
        ELSE
        With([i \in 1..nbRows |-> PadRepeatLast(tt[i], nbColumns)],
             LAMBDA lts :
        With([i \in 1..nbRows |-> commits[i].digest], LAMBDA fs :
        With(deriveRandomness(NewTranscript("lambda"), "lambda", fs),
             LAMBDA rnd :
        IF rnd.err # "nil"
        THEN [Refused(rnd.err) EXCEPT
                !.proof = [NoProof EXCEPT !.fs = fs],
                !.nbCommits = nbRows, !.nbColumns = nbColumns]
        ELSE
        With(FoldRows(lfs, nbColumns, rnd.r), LAMBDA foldedf :
        With(FoldRows(lts, nbColumns, rnd.r), LAMBDA foldedt :
        With([f |-> SubSeq(foldedf, 1, Len(foldedf) - 1), t |-> foldedt],
             LAMBDA innerArgs :
        With(ProveLookupVector(key, innerArgs.f, innerArgs.t), LAMBDA inner :
            [err |-> inner.err,
             proof |-> [fs |-> fs, foldedProof |-> inner.proof],
             nbCommits |-> nbRows, innerCalled |-> TRUE,
             lambda |-> rnd.r, nbColumns |-> nbColumns,
             lfs |-> lfs, lts |-> lts,
             foldedf |-> foldedf, foldedt |-> foldedt,
             innerArgs |-> innerArgs, cfs |-> cfs,
             bindings |-> rnd.bindings]))))))))))

\* The verifier's fold of the commitments: Horner from fs[nbRows-1] (1-based
\* fs[nbRows]) down to fs[0].
RECURSIVE FoldDigests(_, _, _)
FoldDigests(fs, blambda, i) ==
    IF i = Len(fs) THEN fs[i]
    ELSE DigestAdd(DigestScalarMultiplication(FoldDigests(fs, blambda, i + 1),
                                              blambda),
                   fs[i])

\* VerifyLookupTables without the comparison of the folded commitment.
VerifyLookupTablesUnchecked(key, pf) ==
    [err |-> VerifyLookupVector(key, pf.foldedProof), innerCalled |-> TRUE,
     lambda |-> 0, comf |-> 0, bindings |-> << >>]

VerifyLookupTables(key, pf) ==
    With(deriveRandomness(NewTranscript("lambda"), "lambda", pf.fs),
         LAMBDA rnd :
    IF rnd.err # "nil"
    THEN [err |-> rnd.err, innerCalled |-> FALSE, lambda |-> 0, comf |-> 0,
          bindings |-> rnd.bindings]
    ELSE IF Len(pf.fs) = 0                                 \* proof.fs[nbRows-1]
    THEN [err |-> "panic", innerCalled |-> FALSE, lambda |-> rnd.r,
          comf |-> 0, bindings |-> rnd.bindings]
    ELSE
    With(FoldDigests(pf.fs, rnd.r, 1), LAMBDA comf :
        IF comf # pf.foldedProof.f
        THEN [err |-> "ErrFoldedCommitment", innerCalled |-> FALSE,
              lambda |-> rnd.r, comf |-> comf, bindings |-> rnd.bindings]
        ELSE [err |-> VerifyLookupVector(key, pf.foldedProof),
              innerCalled |-> TRUE, lambda |-> rnd.r, comf |-> comf,
              bindings |-> rnd.bindings]))

\* ------------------------------------------------------------ lookup inputs

\* Most rows, most columns and most entries of an input table.
MaxRows == 2
MaxCols == 3
MaxCells == 6
\* Entries of the input tables.
Vals == {0, 1}
\* Sizes of the commitment key, and its secret point.
SrsSizes == {2, 4}
Taus == {5}
\* What the single-column prover answers with: no error, or one of its own.
OracleErrors == {"nil", "ErrLookupVector"}

RectTables ==
    UNION {[1..nr -> [1..nc -> Vals]] :
              <<nr, nc>> \in {s \in (0..MaxRows) \X (0..MaxCols) :
                                 s[1] * s[2] <= MaxCells}}

\* T with the last entry of its last row removed.
CutLastRow(T) ==
    [i \in 1..Len(T) |->
        IF i = Len(T) THEN SubSeq(T[i], 1, Len(T[i]) - 1) ELSE T[i]]

\* The input tables: the rectangular ones, and the ones with a shorter row.
Tables ==
    RectTables
      \cup {CutLastRow(T) : T \in {U \in RectTables :
                                      Len(U) >= 2 /\ Len(U[1]) >= 1}}

\* No run of the point encoding.
NoCodec == [phase |-> "idle"]
\* No goroutine in SetBytes.
NoRace == [phase |-> "idle"]
PointIdle == codec = NoCodec /\ race = NoRace

NoCall == [op |-> "None", arg |-> << >>, ret |-> << >>, before |-> << >>,
           hist |-> << >>]
NoProve == [Refused("none") EXCEPT !.nbCommits = 0]
NoVerify == [err |-> "none", innerCalled |-> FALSE, lambda |-> 0,
             comf |-> 0, bindings |-> << >>]

\* The hash instance of a run of the lookup, and the lookup of a run of the
\* hash: not there.
SisIdle ==
    /\ r = << >>
    /\ cfg = << >>
    /\ hist = << >>
    /\ last = NoCall

LookupIdle ==
    /\ phase = "idle"
    /\ inF = << >>
    /\ inT = << >>
    /\ srs = << >>
    /\ oracle = "nil"
    /\ prove = NoProve
    /\ proof = NoProof
    /\ verify = NoVerify

LookupInit ==
    /\ phase = "input"
    /\ inF \in Tables
    /\ inT \in Tables
    /\ srs \in [size : SrsSizes, tau : Taus]
    /\ oracle \in OracleErrors
    /\ prove = NoProve
    /\ proof = NoProof
    /\ verify = NoVerify
    /\ SisIdle
    /\ PointIdle

\* The prover as it would be if cfs[i] were f[i] itself where the row has
\* the length of the domain: the inverse FFT and the bit reversal would
\* then act on the caller's row.
InputsTransformedInPlace(ft, tt) ==
    [f |-> [i \in 1..Len(ft) |->
              IF Len(ft[i]) \in {2, 4}
              THEN ToCoefficients(NewDomain(Len(ft[i]), 1), ft[i])
              ELSE ft[i]],
     t |-> tt]

\* f and t as ProveLookupTables leaves them: it reads them into cfs[i],
\* lfs[i] and lts[i], which it allocates, and writes to those, to foldedf
\* and to foldedt only.
InputsAfterProve(ft, tt) == [f |-> ft, t |-> tt]

\* The proof as VerifyLookupTables leaves it: comms[i] point into proof.fs
\* but are only read (RawBytes), and the fold is accumulated in comf.
ProofAfterVerify(pf) == pf

Prove ==
    /\ phase = "input"
    /\ prove' = ProveLookupTables(srs, inF, inT)
    /\ proof' = prove'.proof
    /\ phase' = "proved"
    /\ inF' = InputsAfterProve(inF, inT).f
    /\ inT' = InputsAfterProve(inF, inT).t
    /\ UNCHANGED <<srs, oracle, verify>>
    /\ UNCHANGED sisVars
    /\ UNCHANGED pointVars

\* The proof is altered in transit: one commitment of fs, the commitment of
\* the folded proof, or all of fs dropped.
Tamper ==
    /\ phase = "proved"
    /\ prove.err = "nil"
    /\ proof = prove.proof
    /\ \/ \E i \in 1..Len(proof.fs) :
            proof' = [proof EXCEPT !.fs[i] = DigestAdd(@, 1)]
       \/ proof' = [proof EXCEPT !.foldedProof.f = DigestAdd(@, 1),
                                 !.foldedProof.accepts = FALSE]
       \/ proof' = [proof EXCEPT !.fs = << >>]
    /\ UNCHANGED <<phase, inF, inT, srs, oracle, prove, verify>>
    /\ UNCHANGED sisVars
    /\ UNCHANGED pointVars

Verify ==
    /\ phase = "proved"
    /\ prove.err = "nil"
    /\ verify' = VerifyLookupTables(srs, proof)
    /\ phase' = "verified"
    /\ proof' = ProofAfterVerify(proof)
    /\ UNCHANGED <<inF, inT, srs, oracle, prove>>
    /\ UNCHANGED sisVars
    /\ UNCHANGED pointVars

LookupNext ==
    \/ Prove
    \/ Tamper
    \/ Verify

LookupSpec == LookupInit /\ [][LookupNext]_vars

\* ---------------------------------------- multi-column Plookup: properties

ProveReturned == phase \in {"proved", "verified"}

\* f and t have the same number of rows, at least one, and rows of one
\* length within f and within t.
Compatible(ft, tt) ==
    /\ Len(ft) = Len(tt)
    /\ Len(ft) >= 1
    /\ \A i \in 1..Len(ft) : Len(ft[i]) = Len(ft[1])
    /\ \A i \in 1..Len(tt) : Len(tt[i]) = Len(tt[1])

\* The column-tuples T[:][j] of a table with rows of one length.
Columns(T) == {[i \in 1..Len(T) |-> T[i][j]] : j \in 1..Len(T[1])}

\* The key is long enough for a polynomial of nbColumns coefficients.
SrsCovers(key, ft, tt) ==
    key.size >= NextPowerOfTwo(IF Len(ft[1]) + 1 < Len(tt[1])
                               THEN Len(tt[1]) ELSE Len(ft[1]) + 1, 1)

\* The proof reached the verifier as the prover returned it.
Untouched == proof = prove.proof

\* C1: for compatible f, t with every column-tuple of f a column-tuple of t
\* (a key the commitment service accepts and a single-column prover that
\* answers), ProveLookupTables returns a
\* proof and VerifyLookupTables returns no error on it.
C1_Completeness ==
    (/\ ProveReturned
     /\ Compatible(inF, inT)
     /\ Columns(inF) \subseteq Columns(inT)
     /\ SrsCovers(srs, inF, inT)
     /\ oracle = "nil")
        => /\ prove.err = "nil"
           /\ (phase = "verified" /\ Untouched) => verify.err = "nil"

\* The same for tables whose rows are not empty.
C1_CompletenessNonEmptyRows ==
    (/\ ProveReturned
     /\ Compatible(inF, inT)
     /\ Len(inF[1]) >= 1
     /\ Columns(inF) \subseteq Columns(inT)
     /\ SrsCovers(srs, inF, inT)
     /\ oracle = "nil")
        => /\ prove.err = "nil"
           /\ (phase = "verified" /\ Untouched) => verify.err = "nil"

\* A verified, untouched proof for two rows of two different columns.
C1_NonEmptyRowsWitness ==
    /\ phase = "verified"
    /\ Untouched
    /\ Compatible(inF, inT)
    /\ Len(inF) = 2
    /\ Cardinality(Columns(inF)) = 2
    /\ Columns(inF) \subseteq Columns(inT)
    /\ verify.err = "nil"

\* C3: for every proof ProveLookupTables produces, the verifier's Horner
\* fold of proof.fs with lambda equals foldedProof.f, which is the
\* commitment to foldedf[:nbCols-1] padded back to nbCols entries with
\* repeat-last; the dropped entry foldedf[nbCols-1] equals foldedf[nbCols-2].
C3_FoldingConsistency ==
    (ProveReturned /\ prove.err = "nil") =>
        LET n == prove.nbColumns
            honest == VerifyLookupTables(srs, prove.proof)
        IN  /\ honest.lambda = prove.lambda
            /\ honest.comf = prove.proof.foldedProof.f
            /\ honest.err # "ErrFoldedCommitment"
            /\ prove.proof.foldedProof.f =
                  Commit(ToCoefficients(NewDomain(n, 1),
                            PadRepeatLast(SubSeq(prove.foldedf, 1, n - 1),
                                          n)),
                         srs).digest
            /\ prove.foldedf[n] = prove.foldedf[n - 1]

\* A proof for two different rows of two columns, padded to four, folded
\* with a lambda other than 0 and 1.
C3_Witness ==
    /\ phase = "proved"
    /\ prove.err = "nil"
    /\ Len(inF) = 2
    /\ Len(inF[1]) = 2
    /\ inF[1] # inF[2]
    /\ prove.nbColumns = 4
    /\ prove.lambda \notin {0, 1}

\* sum_i lambda^i * fs[i] over the digests (fs[1] is the code's fs[0]).
DigestCombination(fs, lambda) ==
    FSum([i \in 1..Len(fs) |-> FMul(FExp(lambda, i - 1), fs[i])])

\* C4: VerifyLookupTables returns ErrFoldedCommitment whenever the fold of
\* proof.fs with the derived lambda differs from foldedProof.f, without
\* invoking VerifyLookupVector; the inner verifier is reached only after
\* the fold check has passed.
C4_FoldCheckGuardsInner ==
    (phase = "verified" /\ Len(proof.fs) >= 1) =>
        LET lambda == deriveRandomness(NewTranscript("lambda"), "lambda",
                                       proof.fs).r
            fold == DigestCombination(proof.fs, lambda)
        IN  /\ fold # proof.foldedProof.f
                => /\ verify.err = "ErrFoldedCommitment"
                   /\ ~verify.innerCalled
            /\ verify.innerCalled => fold = proof.foldedProof.f

\* An altered commitment of a two-row proof, rejected by the fold check.
C4_Witness ==
    /\ phase = "verified"
    /\ ~Untouched
    /\ Len(proof.fs) = 2
    /\ proof.foldedProof = prove.proof.foldedProof
    /\ verify.err = "ErrFoldedCommitment"
    /\ ~verify.innerCalled

\* A size precondition of ProveLookupTables is violated.
SizeViolated(ft, tt) ==
    \/ Len(ft) # Len(tt)
    \/ Len(ft) < 1
    \/ \E i \in 1..Len(ft) : Len(ft[i]) # Len(ft[1])
    \/ \E i \in 1..Len(tt) : Len(tt[i]) # Len(tt[1])

\* C5: whenever a size precondition is violated, ProveLookupTables fails
\* with ErrIncompatibleSize, has committed to no row and has not called the
\* inner prover.
C5_SizeErrors ==
    (ProveReturned /\ SizeViolated(inF, inT)) =>
        /\ prove.err = "ErrIncompatibleSize"
        /\ prove.nbCommits = 0
        /\ ~prove.innerCalled

\* The same for inputs that are not both without rows.
C5_SizeErrorsSomeRow ==
    (ProveReturned /\ SizeViolated(inF, inT) /\ Len(inF) + Len(inT) >= 1) =>
        /\ prove.err = "ErrIncompatibleSize"
        /\ prove.nbCommits = 0
        /\ ~prove.innerCalled

\* ------------------------------------------------------------ Ring-SIS hash


\* encoding/binary.Write(&buf, binary.BigEndian, int64): 8 bytes.
BE64(x) == BigEndianBytes(x, 8)

\* The 256-bit digest of blake2b.Sum256 is an external primitive; its place
\* is taken by a multiplicative mixing of the input bytes, which like it is
\* a deterministic function of every input byte.
RECURSIVE Sum256(_, _)
Sum256(bytes, h) ==
    IF Len(bytes) = 0 THEN <<h \div 256, h % 256>>
    ELSE Sum256(Tail(bytes), (h * 251 + bytes[1] + 1) % 65521)

genRandom(seed, i, j) ==
    LET slice == <<83, 73, 83>> \o BE64(seed) \o BE64(i) \o BE64(j)
        digest == Sum256(slice, 1)
    IN  FrSetBytes(digest)

\* A shift taken inside the subgroup of 2^logTwoDegree points.
CosetShiftInSubgroup(logTwoDegree) ==
    FExp(RootOfUnity, Pow2(TwoAdicity - logTwoDegree))

\* shift: the root of unity of order 2^TwoAdicity raised to
\* 1 << (TwoAdicity - (logTwoDegree + 1)).
CosetShift(logTwoDegree) ==
    FExp(RootOfUnity, Pow2(TwoAdicity - (logTwoDegree + 1)))

\* The size rounded up to whole bytes.
NbBytesToSumRoundedUp(logTwoBound, degree, keySize) ==
    (logTwoBound * degree * keySize + 7) \div 8

\* NbBytesToSum: the maximal size in bytes of a vector to hash.
NbBytesToSumOf(logTwoBound, degree, keySize) ==
    (logTwoBound * degree * keySize) \div 8

NewRSis(seed, logTwoDegree, logTwoBound, keySize) ==
    LET shift == CosetShift(logTwoDegree)
        dom == NewDomain(Pow2(logTwoDegree), shift)
        degree == Pow2(logTwoDegree)
        A == [i \in 1..keySize |->
                [j \in 1..degree |-> genRandom(seed, i - 1, j - 1)]]
        \* every pass of the inner loop copies A[i] afresh and transforms it
        AHat == [i \in 1..keySize |-> FFT(dom, A[i], TRUE)]
    IN  [buffer |-> << >>,
         A |-> A,
         AfftCosetBitreversed |-> AHat,
         LogTwoBound |-> logTwoBound,
         NbBytesToSum |-> NbBytesToSumOf(logTwoBound, degree, keySize),
         Domain |-> dom,
         Degree |-> degree]

\* MulMod as it would be if it added where it multiplies.
MulModAdding(p, q) == [i \in 1..Len(p) |-> FAdd(p[i], q[i])]

\* MulMod as it would be if it multiplied q in twice.
MulModSquaring(p, q) == [i \in 1..Len(p) |-> FMul(FMul(p[i], q[i]), q[i])]

\* The error NewRSis returns with the instance: its one return statement is
\* return &res, nil.
NewRSisErr(seed, logTwoDegree, logTwoBound, keySize) == "nil"

\* RSis.MulMod: the pointwise product, not inverse-transformed.
MulMod(p, q) == [i \in 1..Len(p) |-> FMul(p[i], q[i])]

\* Write as it would be if it replaced the buffer instead of appending.
WriteBufferReplacing(buffer, p) == p

\* RSis.Write: the buffer after the call (bytes.Buffer.Write appends).
WriteBuffer(buffer, p) == buffer \o p

\* The buffer Sum reads from: padded with zeroes up to NbBytesToSum.
PadBuffer(buffer, nbBytesToSum) ==
    IF Len(buffer) < nbBytesToSum
    THEN buffer \o Zeros(nbBytesToSum - Len(buffer))
    ELSE buffer

\* The bits of the last nbBytesToSum bytes instead of the first.
BitsOfLastBytes(bytes, nbBytesToSum) ==
    [k \in 1..(8 * nbBytesToSum) |->
        (At(bytes, Len(bytes) - nbBytesToSum + (k - 1) \div 8)
            \div Pow2(7 - ((k - 1) % 8))) % 2]

\* mBits[i*8+j] = (tmp[0] >> (7-j)) & 1 over the first nbBytesToSum bytes.
BitsOf(bytes, nbBytesToSum) ==
    [k \in 1..(8 * nbBytesToSum) |->
        (At(bytes, (k - 1) \div 8) \div Pow2(7 - ((k - 1) % 8))) % 2]

\* The byte buf[j] accumulated from nb bits of mBits starting at from, the
\* first bit shifted left by top.
RECURSIVE PackBits(_, _, _, _)
PackBits(mBits, from, nb, top) ==
    IF nb = 0 THEN 0
    ELSE (At(mBits, from) * Pow2(top)
            + PackBits(mBits, from + 1, nb - 1, top - 1)) % 256

\* m[i]: the coefficient built from bits [i*B, (i+1)*B) of mBits.
Coefficient(mBits, i, logTwoBound) ==
    LET nbBytesPerCoefficients == (logTwoBound - (logTwoBound % 8)) \div 8
        nbBitsPerCoefficients == logTwoBound
        offset == nbBitsPerCoefficients % 8
        buf == [j \in 1..(nbBytesPerCoefficients + 1) |->
                  IF j = 1
                  THEN PackBits(mBits, i * nbBitsPerCoefficients, offset,
                                offset - 1)
                  ELSE PackBits(mBits,
                                i * nbBitsPerCoefficients + offset
                                    + 8 * (j - 2), 8, 7)]
    IN  FrSetBytes(buf)

\* The vector m of Degree * len(A) coefficients; the loop fills the first
\* totalNbBits / nbBitsPerCoefficients of them.
BuildM(mBits, logTwoBound, sizeM) ==
    [i \in 1..sizeM |->
        IF i - 1 < Len(mBits) \div logTwoBound
        THEN Coefficient(mBits, i - 1, logTwoBound)
        ELSE 0]

\* res after the first n polynomials of the key have been multiplied in.
RECURSIVE Accumulate(_, _, _)
Accumulate(inst, m, n) ==
    IF n = 0 THEN Zeros(inst.Degree)
    ELSE With(Accumulate(inst, m, n - 1), LAMBDA res :
         With(FFT(inst.Domain,
                  SubSeq(m, (n - 1) * inst.Degree + 1, n * inst.Degree),
                  TRUE), LAMBDA mi :
         With(MulMod(inst.AfftCosetBitreversed[n], mi), LAMBDA t :
            [j \in 1..Len(res) |-> FAdd(res[j], t[j])])))

\* The field elements Sum computes from the buffer.
SumPoly(inst) ==
    With(PadBuffer(inst.buffer, inst.NbBytesToSum), LAMBDA padded :
    With(BitsOf(padded, inst.NbBytesToSum), LAMBDA mBits :
    With(BuildM(mBits, inst.LogTwoBound, inst.Degree * Len(inst.A)),
         LAMBDA m :
    With(Accumulate(inst, m, Len(inst.AfftCosetBitreversed)), LAMBDA res :
        FFTInverseDIT(inst.Domain, res, TRUE)))))

\* The accesses of Sum that fall out of range on inst: a Read of the buffer
\* that finds it empty, and the indexes into mBits, buf, m and res past the
\* end of the slice (each access named with its index).
SumFaults(inst) ==
    LET nb == inst.NbBytesToSum
        sizeBuffer == Len(PadBuffer(inst.buffer, nb))
        totalNbBits == nb * 8
        nbBytesPerCoefficients ==
            (inst.LogTwoBound - (inst.LogTwoBound % 8)) \div 8
        nbBitsPerCoefficients == inst.LogTwoBound
        offset == nbBitsPerCoefficients % 8
        sizeM == inst.Degree * Len(inst.A)
        lenBuf == nbBytesPerCoefficients + 1
        nbFilled == totalNbBits \div nbBitsPerCoefficients
    IN  {<<"buffer.Read", i>> : i \in {i \in 0..(nb - 1) : sizeBuffer - i < 1}}
        \cup {<<"mBits", k>> :
                k \in {k \in 0..(nb * 8 - 1) : k >= totalNbBits}}
        \cup UNION {
              {<<"mBits", i * nbBitsPerCoefficients + j>> :
                  j \in {j \in 0..(offset - 1) :
                            i * nbBitsPerCoefficients + j >= totalNbBits}}
              \cup {<<"mBits", i * nbBitsPerCoefficients + offset + k>> :
                  k \in {k \in 0..(8 * nbBytesPerCoefficients - 1) :
                            i * nbBitsPerCoefficients + offset + k
                                >= totalNbBits}}
              \cup {<<"buf", j + 1>> :
                  j \in {j \in 0..(nbBytesPerCoefficients - 1) :
                            j + 1 >= lenBuf}}
              \cup {<<"m", i>> : k \in {k \in {i} : k >= sizeM}}
              : i \in 0..(nbFilled - 1)}
        \cup UNION {
              {<<"m[:]", (i + 1) * inst.Degree>> :
                  k \in {k \in {i} : (k + 1) * inst.Degree > sizeM}}
              \cup {<<"MulMod", j>> :
                  j \in {j \in 0..(Len(inst.AfftCosetBitreversed[i + 1]) - 1)
                            : j >= inst.Degree}}
              \cup {<<"t", j>> :
                  j \in {j \in 0..(inst.Degree - 1) :
                            j >= Len(inst.AfftCosetBitreversed[i + 1])}}
              : i \in 0..(Len(inst.AfftCosetBitreversed) - 1)}
        \cup {<<"res", 0>> : k \in {k \in {0} : inst.Degree < 1}}

\* Sum as it would be if it read the buffer without consuming it.
SumBufferPeeking(buffer, nbBytesToSum) == buffer

\* The buffer Sum leaves: what follows the NbBytesToSum bytes it has read.
SumBuffer(buffer, nbBytesToSum) ==
    LET padded == PadBuffer(buffer, nbBytesToSum)
    IN  SubSeq(padded, nbBytesToSum + 1, Len(padded))

\* RSis.Sum(b): the returned slice.
SumBytes(inst, b) ==
    With(SumPoly(inst), LAMBDA res :
        b \o Flatten([i \in 1..inst.Degree |-> FrToBytes(res[i])]))

\* Sum as it would be if the products were written into the key.
KeyMultipliedInPlace(inst) ==
    [A |-> inst.A,
     AfftCosetBitreversed |->
        [i \in 1..Len(inst.AfftCosetBitreversed) |->
            MulMod(inst.AfftCosetBitreversed[i],
                   inst.AfftCosetBitreversed[i])]]

\* The key Sum leaves: it transforms slices of its own m, and MulMod
\* writes its products into a slice it allocates.
KeyAfterSum(inst) ==
    [A |-> inst.A, AfftCosetBitreversed |-> inst.AfftCosetBitreversed]

\* Reset as it would be if it left the buffer alone.
ResetBufferKeeping(buffer) == buffer

\* RSis.Reset: the buffer after the call.
ResetBuffer(buffer) == << >>

\* RSis.Size
Size(inst) == (Len(inst.A[1]) * BitLen(Modulus)) \div 8

Configs ==
    [seed : Seeds, logTwoDegree : 0..MaxLogTwoDegree,
     logTwoBound : LogTwoBounds, keySize : 1..MaxKeySize]

BytesUpTo(n) == UNION {[1..k -> ByteVals] : k \in 0..n}

SisInit ==
    /\ cfg \in Configs
    /\ r = NewRSis(cfg.seed, cfg.logTwoDegree, cfg.logTwoBound, cfg.keySize)
    /\ hist = [origin |-> "new", base |-> << >>, written |-> << >>,
               nbWrites |-> 0, hadSum |-> FALSE]
    /\ last = [NoCall EXCEPT
                 !.op = "New",
                 !.ret = <<NewRSisErr(cfg.seed, cfg.logTwoDegree,
                                     cfg.logTwoBound, cfg.keySize)>>]
    /\ LookupIdle
    /\ PointIdle

\* The run has a hash instance: its methods can be called.
Constructed == last.op # "None"

Write(p) ==
    /\ Constructed
    /\ Len(r.buffer) + Len(p) <= MaxBuffer
    /\ r' = [r EXCEPT !.buffer = WriteBuffer(r.buffer, p)]
    /\ hist' = [hist EXCEPT !.written = hist.written \o p,
                            !.nbWrites = IF @ < 2 THEN @ + 1 ELSE @]
    /\ last' = [op |-> "Write", arg |-> p, ret |-> <<Len(p), "nil">>,
                before |-> r.buffer, hist |-> hist]
    /\ UNCHANGED cfg
    /\ UNCHANGED lookupVars
    /\ UNCHANGED pointVars

Sum(b) ==
    /\ Constructed
    /\ r' = [r EXCEPT !.buffer = SumBuffer(r.buffer, r.NbBytesToSum),
                      !.A = KeyAfterSum(r).A,
                      !.AfftCosetBitreversed =
                          KeyAfterSum(r).AfftCosetBitreversed]
    /\ last' = [op |-> "Sum", arg |-> b, ret |-> SumBytes(r, b),
                before |-> r.buffer, hist |-> hist]
    /\ hist' = [origin |-> "sum", base |-> r'.buffer, written |-> << >>,
                nbWrites |-> 0, hadSum |-> TRUE]
    /\ UNCHANGED cfg
    /\ UNCHANGED lookupVars
    /\ UNCHANGED pointVars

Reset ==
    /\ Constructed
    /\ r' = [r EXCEPT !.buffer = ResetBuffer(r.buffer)]
    /\ hist' = [origin |-> "reset", base |-> r'.buffer, written |-> << >>,
                nbWrites |-> 0, hadSum |-> hist.hadSum]
    /\ last' = [op |-> "Reset", arg |-> << >>, ret |-> << >>,
                before |-> r.buffer, hist |-> hist]
    /\ UNCHANGED cfg
    /\ UNCHANGED lookupVars
    /\ UNCHANGED pointVars

SizeCall ==
    /\ Constructed
    /\ last' = [op |-> "Size", arg |-> << >>, ret |-> <<Size(r)>>,
                before |-> r.buffer, hist |-> hist]
    /\ UNCHANGED <<r, cfg, hist>>
    /\ UNCHANGED lookupVars
    /\ UNCHANGED pointVars

SisNext ==
    \/ \E p \in BytesUpTo(MaxWrite) : Write(p)
    \/ \E b \in Prefixes : Sum(b)
    \/ Reset
    \/ SizeCall

SisSpec == SisInit /\ [][SisNext]_vars

\* -------------------------------------------------- the MulMod scenario

\* Coefficients of the polynomials handed to the scenario (255 is -2).
MulVals == {2, 255}

Polys(d) == [1..d -> MulVals]

\* The scenario of TestMulMod on the instance: p and q are transformed in
\* place by the forward coset FFT (DIF), then MulMod is called on them.
\* MulMod writes to the slice it allocates only, so the two transforms are
\* what they were, and its receiver is a copy of the instance. A run holds
\* one scenario: the call leaves the instance as constructed, so a second
\* one would start from the state the first one started from.
MulModCall(p, q) ==
    /\ Constructed
    /\ last.op = "New"
    /\ last' = [op |-> "MulMod",
                arg |-> [p |-> p, q |-> q,
                         pLagrange |-> FFT(r.Domain, p, TRUE),
                         qLagrange |-> FFT(r.Domain, q, TRUE)],
                ret |-> MulMod(FFT(r.Domain, p, TRUE),
                               FFT(r.Domain, q, TRUE)),
                before |-> r.buffer, hist |-> hist]
    /\ UNCHANGED <<r, cfg, hist>>
    /\ UNCHANGED lookupVars
    /\ UNCHANGED pointVars

MulModNext == \E p \in Polys(r.Degree) : \E q \in Polys(r.Degree) :
                  MulModCall(p, q)

MulModSpec == SisInit /\ [][MulModNext]_vars

\* ------------------------------------------------ every call on one instance

\* MulMod on two polynomials of the key, as Sum calls it on the first: at
\* any time, between any two other calls.
MulModOnKey(i, j) ==
    /\ Constructed
    /\ last' = [op |-> "MulMod",
                arg |-> [p |-> r.AfftCosetBitreversed[i],
                         q |-> r.AfftCosetBitreversed[j]],
                ret |-> MulMod(r.AfftCosetBitreversed[i],
                               r.AfftCosetBitreversed[j]),
                before |-> r.buffer, hist |-> hist]
    /\ UNCHANGED <<r, cfg, hist>>
    /\ UNCHANGED lookupVars
    /\ UNCHANGED pointVars

MulModOnKeyNext ==
    \E i \in 1..Len(r.A) : \E j \in 1..Len(r.A) : MulModOnKey(i, j)

KeyNext == SisNext \/ MulModNext \/ MulModOnKeyNext

KeySpec == SisInit /\ [][KeyNext]_vars

\* ------------------------------------------------------- point serialization
\* The curve template (src/unnamed/part_000), instantiated on two small curves
\* Y^2 = X^3 + b over fp with fp coordinates: one whose modulus leaves at least
\* three unused bits in the leading byte (the BLS381-style flags) and one that
\* leaves two (the two-bit flags).  The coordinate of the first takes two
\* bytes, so that the big-endian layout of putFp shows.  Both curves hold
\* points with X = 0 and a point with Y = 0.
Curves ==
    { [q |-> 263, bCurveCoeff |-> 1, NbBytes |-> 2],
      [q |-> 59,  bCurveCoeff |-> 1, NbBytes |-> 1] }

\* The bits of the leading byte the modulus leaves unused.
FpUnusedBits(c) == 8 * c.NbBytes - BitLen(c.q)

\* Bitwise operations on bytes.
RECURSIVE BitOr(_, _)
BitOr(a, b) ==
    IF a = 0 THEN b
    ELSE IF b = 0 THEN a
    ELSE 2 * BitOr(a \div 2, b \div 2)
         + (IF a % 2 = 1 \/ b % 2 = 1 THEN 1 ELSE 0)

RECURSIVE BitAnd(_, _)
BitAnd(a, b) ==
    IF a = 0 \/ b = 0 THEN 0
    ELSE 2 * BitAnd(a \div 2, b \div 2)
         + (IF a % 2 = 1 /\ b % 2 = 1 THEN 1 ELSE 0)

BitClear(a, m) == BitAnd(a, 255 - m)

\* The metadata of the leading byte, as the comment of Bytes lays it out.
\* Three bits (compressed, infinity, largest) when three bits are unused:
\*   000 uncompressed, 010 uncompressed infinity, 100 compressed smallest,
\*   101 compressed largest, 110 compressed infinity;
\* otherwise two bits:
\*   00 uncompressed, 10 compressed smallest, 11 compressed largest,
\*   01 compressed infinity.
mMask(c) == IF FpUnusedBits(c) >= 3 THEN 224 ELSE 192
mUncompressed(c) == 0 * c.NbBytes
mUncompressedInfinity(c) == IF FpUnusedBits(c) >= 3 THEN 64 ELSE 0
mCompressedSmallest(c) == IF FpUnusedBits(c) >= 3 THEN 128 ELSE 128
mCompressedLargest(c) == IF FpUnusedBits(c) >= 3 THEN 160 ELSE 192
mCompressedInfinity(c) == IF FpUnusedBits(c) >= 3 THEN 192 ELSE 64

SizeOfAffineCompressed(c) == c.NbBytes
SizeOfAffineUncompressed(c) == SizeOfAffineCompressed(c) * 2

\* fp.Element: negation, Y > -Y, and the square root.  Which of the two roots
\* Sqrt returns is the library's business: root says which one this run gets.
FpNeg(c, y) == (c.q - y) % c.q
LexicographicallyLargest(c, y) == y > (c.q - 1) \div 2
Roots(c, a) == {y \in 0..(c.q - 1) : (y * y) % c.q = a}
Sqrt(c, root, a) ==
    LET rs == Roots(c, a) IN
    IF rs = {} THEN [ok |-> FALSE, y |-> 0]
    ELSE [ok |-> TRUE,
          y |-> IF root = "low"
                THEN CHOOSE y \in rs : \A z \in rs : y <= z
                ELSE CHOOSE y \in rs : \A z \in rs : y >= z]

\* putFp: the regular (non-Montgomery) value, big-endian.
putFp(c, from) == BigEndianBytes(from, c.NbBytes)

\* readFp: Element.SetBytes of the NbBytes bytes at the offset.
readFp(c, buf, offSet) ==
    BigEndian(SubSeq(buf, offSet + 1, offSet + c.NbBytes)) % c.q

OrFirst(res, m) == [res EXCEPT ![1] = BitOr(res[1], m)]

IsInfinity(p) == p.X = 0 /\ p.Y = 0

\* Bytes: X and the metadata.
Bytes(c, p) ==
    IF IsInfinity(p)
    THEN [Zeros(SizeOfAffineCompressed(c)) EXCEPT ![1] = mCompressedInfinity(c)]
    ELSE OrFirst(putFp(c, p.X),
                 IF LexicographicallyLargest(c, p.Y)
                 THEN mCompressedLargest(c) ELSE mCompressedSmallest(c))

\* RawBytes: X then Y.
RawBytes(c, p) ==
    IF IsInfinity(p)
    THEN [Zeros(SizeOfAffineUncompressed(c)) EXCEPT
              ![1] = IF FpUnusedBits(c) >= 3
                     THEN mUncompressedInfinity(c) ELSE mUncompressed(c)]
    ELSE OrFirst(putFp(c, p.X) \o putFp(c, p.Y), mUncompressed(c))

ErrShortBuffer == "io.ErrShortBuffer"
ErrNoSquareRoot == "invalid compressed coordinate: square root doesn't exist"

\* SetBytes that keeps the root Sqrt returned, whatever the metadata says.
SetBytesKeepingRoot(c, root, p, buf) ==
    IF Len(buf) < SizeOfAffineCompressed(c)
    THEN [p |-> p, n |-> 0, err |-> ErrShortBuffer, buf |-> buf]
    ELSE
    LET mData == BitAnd(buf[1], mMask(c)) IN
    IF /\ \/ mData = mUncompressed(c)
          \/ FpUnusedBits(c) >= 3 /\ mData = mUncompressedInfinity(c)
       /\ Len(buf) < SizeOfAffineUncompressed(c)
    THEN [p |-> p, n |-> 0, err |-> ErrShortBuffer, buf |-> buf]
    ELSE IF mData = mCompressedInfinity(c)
    THEN [p |-> [X |-> 0, Y |-> 0], n |-> SizeOfAffineCompressed(c),
          err |-> "nil", buf |-> buf]
    ELSE IF FpUnusedBits(c) >= 3 /\ mData = mUncompressedInfinity(c)
    THEN [p |-> [X |-> 0, Y |-> 0], n |-> SizeOfAffineUncompressed(c),
          err |-> "nil", buf |-> buf]
    ELSE
    LET cleared  == [buf EXCEPT ![1] = BitClear(buf[1], mMask(c))]
        X        == readFp(c, cleared, 0)
        restored == OrFirst(cleared, mData)
    IN
    IF mData = mUncompressed(c)
    THEN [p |-> [X |-> X, Y |-> readFp(c, restored, c.NbBytes)],
          n |-> SizeOfAffineUncompressed(c), err |-> "nil", buf |-> restored]
    ELSE
    LET YSquared == (X * X * X + c.bCurveCoeff) % c.q
        sq       == Sqrt(c, root, YSquared)
    IN
    IF ~sq.ok
    THEN [p |-> [X |-> X, Y |-> p.Y], n |-> 0, err |-> ErrNoSquareRoot,
          buf |-> restored]
    ELSE [p |-> [X |-> X, Y |-> sq.y], n |-> SizeOfAffineCompressed(c),
          err |-> "nil", buf |-> restored]

\* SetBytes: what the receiver holds afterwards, the bytes consumed, the
\* error, and buf as the call leaves it.
SetBytes(c, root, p, buf) ==
    IF Len(buf) < SizeOfAffineCompressed(c)
    THEN [p |-> p, n |-> 0, err |-> ErrShortBuffer, buf |-> buf]
    ELSE
    LET mData == BitAnd(buf[1], mMask(c)) IN
    IF /\ \/ mData = mUncompressed(c)
          \/ FpUnusedBits(c) >= 3 /\ mData = mUncompressedInfinity(c)
       /\ Len(buf) < SizeOfAffineUncompressed(c)
    THEN [p |-> p, n |-> 0, err |-> ErrShortBuffer, buf |-> buf]
    ELSE IF mData = mCompressedInfinity(c)
    THEN [p |-> [X |-> 0, Y |-> 0], n |-> SizeOfAffineCompressed(c),
          err |-> "nil", buf |-> buf]
    ELSE IF FpUnusedBits(c) >= 3 /\ mData = mUncompressedInfinity(c)
    THEN [p |-> [X |-> 0, Y |-> 0], n |-> SizeOfAffineUncompressed(c),
          err |-> "nil", buf |-> buf]
    ELSE
    LET cleared  == [buf EXCEPT ![1] = BitClear(buf[1], mMask(c))]
        X        == readFp(c, cleared, 0)
        restored == OrFirst(cleared, mData)
    IN
    IF mData = mUncompressed(c)
    THEN [p |-> [X |-> X, Y |-> readFp(c, restored, c.NbBytes)],
          n |-> SizeOfAffineUncompressed(c), err |-> "nil", buf |-> restored]
    ELSE
    LET YSquared == (X * X * X + c.bCurveCoeff) % c.q
        sq       == Sqrt(c, root, YSquared)
    IN
    IF ~sq.ok
    THEN [p |-> [X |-> X, Y |-> p.Y], n |-> 0, err |-> ErrNoSquareRoot,
          buf |-> restored]
    ELSE
    LET Y == IF LexicographicallyLargest(c, sq.y)
             THEN (IF mData = mCompressedSmallest(c)
                   THEN FpNeg(c, sq.y) ELSE sq.y)
             ELSE (IF mData = mCompressedLargest(c)
                   THEN FpNeg(c, sq.y) ELSE sq.y)
    IN [p |-> [X |-> X, Y |-> Y], n |-> SizeOfAffineCompressed(c),
        err |-> "nil", buf |-> restored]

\* The affine points of the curve; (0, 0) stands for infinity.
OnCurve(c, p) ==
    (p.Y * p.Y) % c.q = (p.X * p.X * p.X + c.bCurveCoeff) % c.q
CurvePoints(c) ==
    {[X |-> 0, Y |-> 0]} \cup
    {p \in [X : 0..(c.q - 1), Y : 0..(c.q - 1)] : OnCurve(c, p)}

\* Buffers a caller hands to SetBytes that no encoder produced: every metadata
\* pattern over every X, and the encodings cut short.
MetadataPatterns(c) == {m \in 0..255 : BitAnd(m, mMask(c)) = m}
CallerBuffers(c) ==
    {OrFirst(putFp(c, x), m) : x \in 0..(c.q - 1), m \in MetadataPatterns(c)}
    \cup {SubSeq(RawBytes(c, p), 1, k) :
              p \in {[X |-> 0, Y |-> 0], [X |-> 0, Y |-> 1]},
              k \in 0..(SizeOfAffineUncompressed(c) - 1)}

NoOut == [p |-> [X |-> 0, Y |-> 0], n |-> 0, err |-> "none", buf |-> << >>]

\* A run starts from a point to encode, or from a buffer a caller supplies.
PointInit ==
    /\ codec \in
         UNION {
           {[phase |-> "ready", curve |-> c, root |-> rt, p |-> p,
             via |-> "none", buf |-> << >>, out |-> NoOut] :
                p \in CurvePoints(c), rt \in {"low", "high"}}
           \cup
           {[phase |-> "encoded", curve |-> c, root |-> rt,
             p |-> [X |-> 0, Y |-> 0],
             via |-> "caller", buf |-> b, out |-> NoOut] :
                b \in CallerBuffers(c), rt \in {"low", "high"}}
           : c \in Curves }
    /\ race = NoRace
    /\ LookupIdle
    /\ SisIdle

EncodeRaw ==
    /\ codec.phase = "ready"
    /\ codec' = [codec EXCEPT !.phase = "encoded", !.via = "RawBytes",
                              !.buf = RawBytes(codec.curve, codec.p)]
    /\ UNCHANGED lookupVars
    /\ UNCHANGED sisVars
    /\ UNCHANGED race

EncodeCompressed ==
    /\ codec.phase = "ready"
    /\ codec' = [codec EXCEPT !.phase = "encoded", !.via = "Bytes",
                              !.buf = Bytes(codec.curve, codec.p)]
    /\ UNCHANGED lookupVars
    /\ UNCHANGED sisVars
    /\ UNCHANGED race

\* SetBytes on a fresh receiver.
Decode ==
    /\ codec.phase = "encoded"
    /\ codec' = [codec EXCEPT !.phase = "decoded",
                              !.out = SetBytes(codec.curve, codec.root,
                                               [X |-> 0, Y |-> 0], codec.buf)]
    /\ UNCHANGED lookupVars
    /\ UNCHANGED sisVars
    /\ UNCHANGED race

PointNext == EncodeRaw \/ EncodeCompressed \/ Decode

PointSpec == PointInit /\ [][PointNext]_vars

\* ------------------------------------------ SetBytes, statement by statement
\* One or two goroutines call SetBytes on the same buf, each on a receiver of
\* its own.  buf[0] &= ^mMask and buf[0] |= mData are a load and a store with
\* nothing to order them against the other goroutine's accesses.

\* buf[0] &= ^mMask: the byte stored for the one loaded.
ClearedByte(c, loaded) == BitClear(loaded, mMask(c))

\* buf[0] |= mData as it would be if it stored back what it had loaded.
RestoredByteUnmasked(loaded, mData) == loaded

\* buf[0] |= mData: the byte stored for the one loaded.
RestoredByte(loaded, mData) == BitOr(loaded, mData)

CallerCounts == {1, 2}

NoReturn == [p |-> [X |-> 0, Y |-> 0], n |-> 0, err |-> "none"]
Returned(p, n, err) == [p |-> p, n |-> n, err |-> err]

\* The buffers the goroutines are given: both encodings of every point, the
\* compressed one also as the head of a longer buffer, every X under the
\* smallest flag (half of them have no square root), and an empty buffer.
RaceBuffers(c) ==
    {RawBytes(c, p) : p \in CurvePoints(c)}
    \cup {Bytes(c, p) : p \in CurvePoints(c)}
    \cup {Bytes(c, p) \o putFp(c, 1) : p \in CurvePoints(c)}
    \cup {OrFirst(putFp(c, x), mCompressedSmallest(c)) : x \in 0..(c.q - 1)}
    \cup {<< >>}

RaceInit ==
    /\ race \in
         UNION {
           {[phase |-> "running", curve |-> c, root |-> rt, orig |-> b,
             buf |-> b,
             callers |-> [g \in 1..n |->
                            [pc |-> "metadata", mData |-> 0, loaded |-> 0,
                             X |-> 0, out |-> NoReturn]]] :
                b \in RaceBuffers(c), rt \in {"low", "high"},
                n \in CallerCounts}
           : c \in Curves }
    /\ codec = NoCodec
    /\ LookupIdle
    /\ SisIdle

RaceFrame ==
    /\ UNCHANGED codec
    /\ UNCHANGED lookupVars
    /\ UNCHANGED sisVars

Running(g) == race.phase = "running" /\ g \in DOMAIN race.callers

\* The length check, mData := buf[0] & mMask, the second length check and
\* the two returns for infinity.
ReadMetadata(g) ==
    /\ Running(g)
    /\ race.callers[g].pc = "metadata"
    /\ LET c == race.curve
           me == race.callers[g]
           mData == BitAnd(race.buf[1], mMask(c))
           zero == [X |-> 0, Y |-> 0]
       IN  race' = [race EXCEPT !.callers[g] =
             IF Len(race.buf) < SizeOfAffineCompressed(c)
             THEN [me EXCEPT !.pc = "done",
                             !.out = Returned(zero, 0, ErrShortBuffer)]
             ELSE IF /\ \/ mData = mUncompressed(c)
                        \/ /\ FpUnusedBits(c) >= 3
                           /\ mData = mUncompressedInfinity(c)
                     /\ Len(race.buf) < SizeOfAffineUncompressed(c)
             THEN [me EXCEPT !.pc = "done", !.mData = mData,
                             !.out = Returned(zero, 0, ErrShortBuffer)]
             ELSE IF mData = mCompressedInfinity(c)
             THEN [me EXCEPT !.pc = "done", !.mData = mData,
                             !.out = Returned(zero,
                                              SizeOfAffineCompressed(c),
                                              "nil")]
             ELSE IF FpUnusedBits(c) >= 3 /\ mData = mUncompressedInfinity(c)
             THEN [me EXCEPT !.pc = "done", !.mData = mData,
                             !.out = Returned(zero,
                                              SizeOfAffineUncompressed(c),
                                              "nil")]
             ELSE [me EXCEPT !.pc = "clearLoad", !.mData = mData]]
    /\ RaceFrame

\* buf[0] &= ^mMask: the load.
ClearLoad(g) ==
    /\ Running(g)
    /\ race.callers[g].pc = "clearLoad"
    /\ race' = [race EXCEPT !.callers[g].loaded = race.buf[1],
                            !.callers[g].pc = "clearStore"]
    /\ RaceFrame

\* buf[0] &= ^mMask: the store.
ClearStore(g) ==
    /\ Running(g)
    /\ race.callers[g].pc = "clearStore"
    /\ race' = [race EXCEPT
                  !.buf[1] = ClearedByte(race.curve, race.callers[g].loaded),
                  !.callers[g].pc = "readX"]
    /\ RaceFrame

\* readFp of X.
ReadX(g) ==
    /\ Running(g)
    /\ race.callers[g].pc = "readX"
    /\ race' = [race EXCEPT
                  !.callers[g].X = readFp(race.curve, race.buf, 0),
                  !.callers[g].pc = "restoreLoad"]
    /\ RaceFrame

\* buf[0] |= mData: the load.
RestoreLoad(g) ==
    /\ Running(g)
    /\ race.callers[g].pc = "restoreLoad"
    /\ race' = [race EXCEPT !.callers[g].loaded = race.buf[1],
                            !.callers[g].pc = "restoreStore"]
    /\ RaceFrame

\* buf[0] |= mData: the store.
RestoreStore(g) ==
    /\ Running(g)
    /\ race.callers[g].pc = "restoreStore"
    /\ race' = [race EXCEPT
                  !.buf[1] = RestoredByte(race.callers[g].loaded,
                                          race.callers[g].mData),
                  !.callers[g].pc = "finish"]
    /\ RaceFrame

\* The rest of SetBytes: Y read from buf, or solved for.
Finish(g) ==
    /\ Running(g)
    /\ race.callers[g].pc = "finish"
    /\ LET c == race.curve
           me == race.callers[g]
           YSquared == (me.X * me.X * me.X + c.bCurveCoeff) % c.q
           sq == Sqrt(c, race.root, YSquared)
           Y == IF LexicographicallyLargest(c, sq.y)
                THEN (IF me.mData = mCompressedSmallest(c)
                      THEN FpNeg(c, sq.y) ELSE sq.y)
                ELSE (IF me.mData = mCompressedLargest(c)
                      THEN FpNeg(c, sq.y) ELSE sq.y)
       IN  race' = [race EXCEPT !.callers[g].pc = "done",
                                !.callers[g].out =
             IF me.mData = mUncompressed(c)
             THEN Returned([X |-> me.X,
                            Y |-> readFp(c, race.buf, c.NbBytes)],
                           SizeOfAffineUncompressed(c), "nil")
             ELSE IF ~sq.ok
             THEN Returned([X |-> me.X, Y |-> 0], 0, ErrNoSquareRoot)
             ELSE Returned([X |-> me.X, Y |-> Y],
                           SizeOfAffineCompressed(c), "nil")]
    /\ RaceFrame

RaceNext ==
    \E g \in {1, 2} :
        \/ ReadMetadata(g)
        \/ ClearLoad(g)
        \/ ClearStore(g)
        \/ ReadX(g)
        \/ RestoreLoad(g)
        \/ RestoreStore(g)
        \/ Finish(g)

RaceSpec == RaceInit /\ [][RaceNext]_vars

\* ------------------------------------------------------------- both together

\* A run is a run of the lookup, of the hash or of the point encoding: they
\* share nothing.
Init == LookupInit \/ SisInit \/ PointInit \/ RaceInit
Next == LookupNext \/ SisNext \/ PointNext \/ RaceNext
Spec == Init /\ [][Next]_vars

\* ----------------------------------------------- Ring-SIS hash: properties

\* The field elements a Sum call appended to its argument.
Appended(call) ==
    [i \in 1..((Len(call.ret) - Len(call.arg)) \div FrBytes) |->
        FrSetBytes(SubSeq(call.ret, Len(call.arg) + (i - 1) * FrBytes + 1,
                          Len(call.arg) + i * FrBytes))]

\* Bit number idx (most significant bit of byte 0 first) of the stream
\* followed by zeroes.
StreamBit(stream, idx) ==
    IF idx < 8 * Len(stream)
    THEN (At(stream, idx \div 8) \div Pow2(7 - (idx % 8))) % 2
    ELSE 0

\* The integer whose nb-bit expansion, most significant bit first, is bits
\* [from, from + nb) of the stream.
RECURSIVE ChunkValue(_, _, _)
ChunkValue(stream, from, nb) ==
    IF nb = 0 THEN 0
    ELSE 2 * ChunkValue(stream, from, nb - 1)
            + StreamBit(stream, from + nb - 1)

\* Coefficient k of p * q modulo X^d + 1, by the schoolbook convolution.
NegacyclicCoefficient(p, q, k) ==
    LET d == Len(p)
        term(i) ==
            LET j == (k - i) % d
            IN  IF i + j = k THEN FMul(At(p, i), At(q, j))
                ELSE FNeg(FMul(At(p, i), At(q, j)))
    IN  FSum([i \in 1..d |-> term(i - 1)])

\* sum_i A[i] * m_i modulo X^d + 1, m_i made of the B-bit chunks number
\* i*d .. (i+1)*d-1 of the stream.
RingSisOf(inst, stream) ==
    LET d == inst.Degree
        B == inst.LogTwoBound
        mPoly(i) ==
            [j \in 1..d |->
                ChunkValue(stream, (i * d + j - 1) * B, B) % Modulus]
    IN  [k \in 1..d |->
            FSum([i \in 1..Len(inst.A) |->
                    NegacyclicCoefficient(inst.A[i], mPoly(i - 1), k - 1)])]

ByteAligned(inst) ==
    (inst.LogTwoBound * inst.Degree * Len(inst.A)) % 8 = 0

\* C2: for every absorbed byte stream, the d field elements Sum appends are
\* the coefficients of sum_i A[i] * m_i modulo X^d + 1, m_i being the B-bit
\* chunks i*d .. (i+1)*d-1 of the zero-padded stream.
C2_SumIsRingSis ==
    last.op = "Sum" => Appended(last) = RingSisOf(r, last.before)

\* The same on the instances whose LogTwoBound * Degree * keySize is a
\* multiple of 8 (the ones whose NbBytesToSum loses no bit).
C2_SumIsRingSisByteAligned ==
    (last.op = "Sum" /\ ByteAligned(r))
        => Appended(last) = RingSisOf(r, last.before)

\* C6: len(Sum(prefix)) - len(prefix) equals Size(), and Size() is
\* d * floor(modulus_bit_length / 8).
C6_SizeContract ==
    /\ last.op = "Sum" => Len(last.ret) - Len(last.arg) = Size(r)
    /\ Size(r) = r.Degree * (BitLen(Modulus) \div 8)

\* What Sum appends is Degree elements of FrBytes bytes each.
C6_SumLength ==
    last.op = "Sum" => Len(last.ret) - Len(last.arg) = r.Degree * FrBytes

\* The digest a freshly constructed instance returns for Write(x); Sum(b).
FreshSum(x, b) ==
    SumBytes([NewRSis(cfg.seed, cfg.logTwoDegree, cfg.logTwoBound,
                      cfg.keySize)
                EXCEPT !.buffer = WriteBuffer(<< >>, x)], b)

\* buffer with its first n bytes removed.
Drop(buffer, n) == SubSeq(buffer, n + 1, Len(buffer))

\* C7 as stated: after Sum the buffer is empty, and a Sum that follows
\* Sum; Write(y) hashes y alone.
C7_SumDrains ==
    /\ last.op = "Sum" => r.buffer = << >>
    /\ (last.op = "Sum" /\ last.hist.origin = "sum")
          => last.ret = FreshSum(last.hist.written, last.arg)

\* C7 amended: Sum removes the first NbBytesToSum bytes of the buffer and
\* leaves the bytes that followed them (none when the buffer held at most
\* NbBytesToSum bytes); a Sum that follows Sum; Write(y) hashes the bytes the
\* earlier Sum left followed by y, which is y alone when the earlier Sum
\* was given at most NbBytesToSum bytes.
C7_SumConsumesNbBytesToSum ==
    /\ last.op = "Sum" =>
          /\ r.buffer = Drop(last.before, r.NbBytesToSum)
          /\ Len(last.before) <= r.NbBytesToSum => r.buffer = << >>
    /\ (last.op = "Sum" /\ last.hist.origin = "sum")
          => last.ret = FreshSum(last.hist.base \o last.hist.written,
                                 last.arg)

\* A second Sum after Write(x); Sum; Write(y), x within NbBytesToSum and
\* both non-empty: it hashes y alone.
C7_Witness ==
    /\ last.op = "Sum"
    /\ last.hist.origin = "sum"
    /\ last.hist.base = << >>
    /\ last.hist.written # << >>
    /\ Len(last.hist.written) <= r.NbBytesToSum

\* C8: Sum does not change the hash state: the buffer after Sum is the
\* buffer before it, and two consecutive Sum calls return the same digest.
C8_SumKeepsState ==
    [][last'.op = "Sum" =>
          /\ r'.buffer = r.buffer
          /\ last.op = "Sum" => Appended(last') = Appended(last)]_vars

\* C9: Write(p) appends p and returns (len(p), nil), and Sum after
\* Write(x1); ...; Write(xk) returns what it returns after the single
\* Write(x1 ... xk) from the same starting buffer.
C9_ChunkIndependence ==
    /\ last.op = "Write" =>
          /\ r.buffer = last.before \o last.arg
          /\ last.ret = <<Len(last.arg), "nil">>
    /\ last.op = "Sum" =>
          last.ret = SumBytes([r EXCEPT !.buffer =
                                  WriteBuffer(last.hist.base,
                                              last.hist.written)],
                              last.arg)

\* A Sum over two bytes written by two Write calls, both inside the bytes
\* Sum reads.
C9_Witness ==
    /\ last.op = "Sum"
    /\ last.hist.nbWrites = 2
    /\ last.hist.base = << >>
    /\ Len(last.hist.written) = 2
    /\ last.hist.written[1] # last.hist.written[2]
    /\ r.NbBytesToSum >= 2

\* C10: Reset empties the buffer and leaves A, AHat and the parameters as
\* constructed, and Reset; Write(x); Sum returns what a freshly constructed
\* instance returns for Write(x); Sum.
C10_ResetStability ==
    /\ last.op = "Reset" =>
          r = NewRSis(cfg.seed, cfg.logTwoDegree, cfg.logTwoBound,
                      cfg.keySize)
    /\ (last.op = "Sum" /\ last.hist.origin = "reset")
          => last.ret = FreshSum(last.hist.written, last.arg)

\* Sum after a Reset that followed an earlier Sum of a non-empty buffer,
\* with bytes written in between.
C10_Witness ==
    /\ last.op = "Sum"
    /\ last.hist.origin = "reset"
    /\ last.hist.hadSum
    /\ last.hist.written # << >>
    /\ r.NbBytesToSum > 0

\* ------------------------------------------------------------ C11: linearity

\* The scalars alpha of the linearity check (256 is -1).
Scalars == {1, 2, 3, 256}

\* The coefficient vector m Sum builds from the buffer content x.
CoefficientsOf(inst, x) ==
    BuildM(BitsOf(PadBuffer(x, inst.NbBytesToSum), inst.NbBytesToSum),
           inst.LogTwoBound, inst.Degree * Len(inst.A))

\* Bit idx of the stream whose B-bit chunks, most significant bit first,
\* are the coefficients of w that Sum reads out of nbBytes bytes.
CoefficientBit(w, B, nbBytes, idx) ==
    IF idx \div B < (8 * nbBytes) \div B
    THEN (At(w, idx \div B) \div Pow2(B - 1 - (idx % B))) % 2
    ELSE 0

\* The nbBytes bytes Sum reads the coefficients w from.
EncodeCoefficients(w, B, nbBytes) ==
    [i \in 1..nbBytes |->
        LET bit(j) == CoefficientBit(w, B, nbBytes, 8 * (i - 1) + j)
        IN  128 * bit(0) + 64 * bit(1) + 32 * bit(2) + 16 * bit(3)
              + 8 * bit(4) + 4 * bit(5) + 2 * bit(6) + bit(7)]

\* The field elements of the digest FreshSum returns for the bytes x.
FreshHash(x) ==
    LET ret == FreshSum(x, << >>)
    IN  Appended([arg |-> << >>, ret |-> ret])

\* H(alpha*u + v) = alpha*H(u) + H(v) for the vector u of digest hu, the
\* vector v of digest hv and every alpha with alpha*u + v within the bound
\* 2^B.
LinearAt(u, hu, v, hv) ==
    \A alpha \in Scalars :
        With([k \in 1..Len(u) |-> FAdd(FMul(alpha, u[k]), v[k])], LAMBDA w :
            (\A k \in 1..Len(w) : w[k] < Pow2(r.LogTwoBound))
            => FreshHash(EncodeCoefficients(w, r.LogTwoBound,
                                            r.NbBytesToSum))
                 = [j \in 1..Len(hu) |-> FAdd(FMul(alpha, hu[j]), hv[j])])

\* C11: the digest is linear in the coefficient vector: for the vector u
\* that Write(x); Sum(nil) has hashed on a new instance, every vector v and
\* every scalar alpha with alpha*u + v within the bound,
\* H(alpha*u + v) = alpha*H(u) + H(v).
C11_Linearity ==
    (last.op = "Sum" /\ last.arg = << >> /\ last.hist.origin = "new"
        /\ last.hist.nbWrites = 1)
        => With(CoefficientsOf(r, last.hist.written), LAMBDA u :
           With(Appended(last), LAMBDA hu :
              \A y \in BytesUpTo(MaxBuffer) :
                  With(CoefficientsOf(r, y), LAMBDA v :
                  With(FreshHash(y), LAMBDA hv :
                      LinearAt(u, hu, v, hv)))))

\* A first Sum of a non-zero vector u for which some alpha*u + v, alpha not
\* 1 and v non-zero, is within the bound and differs from u and v.
C11_Witness ==
    /\ last.op = "Sum"
    /\ last.arg = << >>
    /\ last.hist.origin = "new"
    /\ last.hist.nbWrites = 1
    /\ r.NbBytesToSum > 0
    /\ \E alpha \in Scalars \ {1} : \E y \in BytesUpTo(MaxBuffer) :
          LET u == CoefficientsOf(r, last.hist.written)
              v == CoefficientsOf(r, y)
              w == [k \in 1..Len(u) |-> FAdd(FMul(alpha, u[k]), v[k])]
          IN  /\ \E k \in 1..Len(u) : u[k] # 0
              /\ \E k \in 1..Len(v) : v[k] # 0
              /\ \A k \in 1..Len(w) : w[k] < Pow2(r.LogTwoBound)
              /\ w # u /\ w # v
              /\ Appended(last) # FreshHash(y)

\* --------------------------------------------------------------- C12: MulMod

\* p * q modulo X^d + 1.
NegacyclicProduct(p, q) ==
    [k \in 1..Len(p) |-> NegacyclicCoefficient(p, q, k - 1)]

\* C12: the inverse coset FFT (DIT) of MulMod of the forward coset FFTs
\* (DIF) of p and q is p * q modulo X^d + 1; what MulMod returns is not
\* inverse-transformed (it is the product in evaluation form), has the
\* length of its arguments and is a slice of its own (the arguments are
\* still the two transforms).
C12_MulModNegacyclic ==
    last.op = "MulMod" =>
        /\ FFTInverseDIT(r.Domain, last.ret, TRUE)
              = NegacyclicProduct(last.arg.p, last.arg.q)
        /\ last.ret = FFT(r.Domain,
                          NegacyclicProduct(last.arg.p, last.arg.q), TRUE)
        /\ Len(last.ret) = Len(last.arg.pLagrange)
        /\ last.arg.pLagrange = FFT(r.Domain, last.arg.p, TRUE)
        /\ last.arg.qLagrange = FFT(r.Domain, last.arg.q, TRUE)

\* A product whose terms wrap around X^d: degree at least 2, the top
\* coefficients of p and q both non-zero, and a product that is not what
\* MulMod returned.
C12_Witness ==
    /\ last.op = "MulMod"
    /\ r.Degree >= 2
    /\ last.arg.p[r.Degree] # 0
    /\ last.arg.q[r.Degree] # 0
    /\ last.arg.p[1] # 0
    /\ last.arg.q[1] # 0
    /\ last.ret # NegacyclicProduct(last.arg.p, last.arg.q)

\* ------------------------------------------------- C14: errors of the prover

\* ProveLookupTables returned an error.
ProveFailed == ProveReturned /\ prove.err \notin {"nil", "panic"}

\* C14: an error of the commitment, the transcript or the single-column
\* prover is returned as it is, and the proof returned with an error
\* carries no commitment in fs.
C14_ErrorsDiscardCommitments ==
    ProveFailed =>
        /\ prove.err \in {"ErrIncompatibleSize", "ErrInvalidPolynomialSize",
                          oracle}
        /\ prove.proof.fs = << >>

\* The errors are returned as they are: the size error, the commitment's
\* error when the key is too short for nbColumns coefficients, and
\* otherwise the single-column prover's.
C14_ErrorsVerbatim ==
    ProveFailed =>
        IF SizeViolated(inF, inT) THEN prove.err = "ErrIncompatibleSize"
        ELSE IF ~SrsCovers(srs, inF, inT)
        THEN prove.err = "ErrInvalidPolynomialSize"
        ELSE prove.err = oracle

\* ---------------------------------------------- C15: the inputs are kept

C16_RejectsUnaligned ==
    (last.op = "New"
        /\ (cfg.logTwoBound * Pow2(cfg.logTwoDegree) * cfg.keySize) % 8 # 0)
        => last.ret # <<"nil">>

\* ------------------------------------------ C17: outcomes of the lookup

\* C17: ProveLookupTables and VerifyLookupTables end, for every input, with
\* success, the size error, the fold error or a reported error of the
\* commitment, the transcript or the single-column protocol: never with a
\* crash.
C17_NoCrash ==
    /\ ProveReturned
          => prove.err \in {"nil", "ErrIncompatibleSize",
                            "ErrInvalidPolynomialSize", oracle}
    /\ phase = "verified"
          => verify.err \in {"nil", "ErrFoldedCommitment",
                             "ErrPlookupVerification"}

\* The verifier's part of it alone: a proof whose fs is empty included.
C17_VerifierNoCrash ==
    phase = "verified"
          => verify.err \in {"nil", "ErrFoldedCommitment",
                             "ErrPlookupVerification"}

\* ------------------------------------------- point serialization: properties

\* What SetBytes was given, read independently of SetBytes.
GivenMetadata == BitAnd(codec.buf[1], mMask(codec.curve))
GivenX ==
    BigEndian([SubSeq(codec.buf, 1, codec.curve.NbBytes) EXCEPT
                  ![1] = codec.buf[1] - GivenMetadata]) % codec.curve.q
GivenYSquared ==
    (GivenX * GivenX * GivenX + codec.curve.bCurveCoeff) % codec.curve.q

\* SetBytes had to solve the curve equation for Y.
SolvedForY ==
    /\ codec.phase = "decoded"
    /\ Len(codec.buf) >= SizeOfAffineCompressed(codec.curve)
    /\ GivenMetadata \notin {mUncompressed(codec.curve),
                             mUncompressedInfinity(codec.curve),
                             mCompressedInfinity(codec.curve)}

\* C18: for every point p of the curve, infinity included, SetBytes of
\* RawBytes(p) restores p and reports SizeOfAffineUncompressed bytes, and
\* SetBytes of Bytes(p) restores p and reports SizeOfAffineCompressed bytes;
\* where SetBytes solves for Y under a smallest/largest flag it returns a root
\* of X^3 + b that is larger than its negation exactly when the flag says
\* largest (the root 0 is its own negation), and where X^3 + b has no square
\* root it returns an error.
C18_PointRoundTrip ==
    codec.phase = "decoded" =>
        LET c == codec.curve
            o == codec.out
        IN
        /\ codec.via = "RawBytes" =>
              /\ o.err = "nil"
              /\ o.p = codec.p
              /\ o.n = SizeOfAffineUncompressed(c)
        /\ codec.via = "Bytes" =>
              /\ o.err = "nil"
              /\ o.p = codec.p
              /\ o.n = SizeOfAffineCompressed(c)
        /\ SolvedForY =>
              IF \E y \in 0..(c.q - 1) : (y * y) % c.q = GivenYSquared
              THEN /\ o.err = "nil"
                   /\ o.p.X = GivenX
                   /\ (o.p.Y * o.p.Y) % c.q = GivenYSquared
                   /\ (/\ GivenMetadata \in {mCompressedSmallest(c),
                                             mCompressedLargest(c)}
                       /\ o.p.Y # 0)
                      => (o.p.Y > (c.q - o.p.Y) % c.q
                            <=> GivenMetadata = mCompressedLargest(c))
              ELSE o.err # "nil"

\* A point whose Y is larger than -Y went through Bytes and came back, from a
\* Sqrt that returned the other root.
C18_Witness ==
    /\ codec.phase = "decoded"
    /\ codec.via = "Bytes"
    /\ codec.root = "low"
    /\ codec.p.Y > (codec.curve.q - 1) \div 2
    /\ codec.out.p = codec.p
    /\ codec.out.n = SizeOfAffineCompressed(codec.curve)

\* ------------------------------------------------ multi-column fold: sums

\* sum_i lambda^i * rows[i][j] (rows[1] is the code's row 0).
PowerSum(rows, lambda, j) ==
    FSum([i \in 1..Len(rows) |-> FMul(FExp(lambda, i - 1), rows[i][j])])

\* C19: for every column j, the prover's loop from the last row down to the
\* first leaves foldedf[j] = sum_i lambda^i * lfs[i][j] and
\* foldedt[j] = sum_i lambda^i * lts[i][j], and the verifier's fold of the
\* digests weighs fs[i] with the same lambda^i.
C19_HornerFold ==
    prove.innerCalled =>
        /\ \A j \in 1..prove.nbColumns :
              /\ prove.foldedf[j] = PowerSum(prove.lfs, prove.lambda, j)
              /\ prove.foldedt[j] = PowerSum(prove.lts, prove.lambda, j)
        /\ FoldDigests(prove.proof.fs, prove.lambda, 1) =
              DigestCombination(prove.proof.fs, prove.lambda)

\* Two rows with a nonzero entry in the second, folded with a lambda other
\* than 0 and 1.
C19_Witness ==
    /\ phase = "proved"
    /\ prove.innerCalled
    /\ Len(prove.lfs) = 2
    /\ prove.lambda \notin {0, 1}
    /\ \E j \in 1..prove.nbColumns : prove.lfs[2][j] # 0
    /\ \E j \in 1..prove.nbColumns : prove.lts[2][j] # 0
    /\ prove.foldedf # prove.lfs[1]

\* ------------------------------------------- multi-column fold: column count

\* C20: nbColumns is the smallest power of two that is at least
\* max(len(f[0]) + 1, len(t[0])), so it is at least len(f[0]) + 1 and at
\* least len(t[0]), and ProveLookupVector is called with a query of
\* nbColumns - 1 entries and a table of nbColumns entries.
C20_ColumnCount ==
    (ProveReturned /\ prove.nbCommits >= 1) =>
        LET sf == Len(inF[1])
            st == Len(inT[1])
            n  == prove.nbColumns
        IN  /\ \E k \in 0..TwoAdicity : n = Pow2(k)
            /\ n >= sf + 1
            /\ n >= st
            /\ \A m \in 1..(n - 1) :
                  (\E k \in 0..TwoAdicity : m = Pow2(k))
                      => (m < sf + 1 \/ m < st)
            /\ prove.innerCalled =>
                  /\ Len(prove.innerArgs.f) = n - 1
                  /\ Len(prove.innerArgs.t) = n

\* A query of two entries against a table of two: three entries needed, four
\* columns chosen, the inner prover called.
C20_Witness ==
    /\ phase = "proved"
    /\ prove.innerCalled
    /\ Len(inF[1]) = 2
    /\ Len(inT[1]) = 2
    /\ prove.nbColumns = 4
    /\ Len(prove.innerArgs.f) = 3

\* ------------------------------------------------ multi-column fold: padding

\* row copied, then its last entry repeated up to n entries, entry by entry.
PaddedFrom(padded, row, n) ==
    /\ Len(padded) = n
    /\ \A j \in 1..n :
          padded[j] = (IF j <= Len(row) THEN row[j] ELSE row[Len(row)])

\* C21: for every row i, lfs[i] and cfs[i] before its transform have
\* nbColumns entries, entry j being f[i][j] for j < len(f[i]) and
\* f[i][len(f[i])-1] from there on; lts[i] has nbColumns entries, entry j
\* being t[i][j] for j < len(t[i]) and t[i][len(t[i])-1] from there on.
C21_RepeatLastPadding ==
    prove.innerCalled =>
        /\ Len(prove.lfs) = Len(inF)
        /\ Len(prove.cfs) = Len(inF)
        /\ Len(prove.lts) = Len(inT)
        /\ \A i \in 1..Len(inF) :
              /\ PaddedFrom(prove.lfs[i], inF[i], prove.nbColumns)
              /\ PaddedFrom(prove.cfs[i], inF[i], prove.nbColumns)
              /\ PaddedFrom(prove.lts[i], inT[i], prove.nbColumns)

\* Rows of f and of t that end on a nonzero entry and are shorter than the
\* column count.
C21_Witness ==
    /\ phase = "proved"
    /\ prove.innerCalled
    /\ prove.nbColumns = 4
    /\ Len(inF[1]) = 2
    /\ inF[1][2] # 0
    /\ Len(inT[1]) = 3
    /\ inT[1][3] # 0
    /\ prove.lfs[1][4] = inF[1][2]
    /\ prove.lts[1][4] = inT[1][3]

\* ------------------------------------------------------ transcript: ordering

\* The uncompressed encodings of fs[0], fs[1], ... in that order.
EncodingsInOrder(fs) == [i \in 1..Len(fs) |-> DigestRawBytes(fs[i])]

\* C22: the prover and the verifier each bind, under the label "lambda", the
\* uncompressed encodings of fs[0], ..., fs[nbRows-1] in that order and
\* nothing else before the challenge is computed, so that on the same fs
\* they derive the same lambda.
C22_TranscriptOrdering ==
    /\ prove.innerCalled =>
          /\ prove.bindings = EncodingsInOrder(prove.proof.fs)
          /\ Len(prove.bindings) = Len(inT)
    /\ phase = "verified" =>
          /\ verify.bindings = EncodingsInOrder(proof.fs)
          /\ (prove.innerCalled /\ proof.fs = prove.proof.fs
                  /\ verify.err # "panic")
                => verify.lambda = prove.lambda

\* Two different commitments, bound by the prover and then by the verifier.
C22_Witness ==
    /\ phase = "verified"
    /\ prove.innerCalled
    /\ Len(proof.fs) = 2
    /\ proof.fs = prove.proof.fs
    /\ proof.fs[1] # proof.fs[2]
    /\ verify.bindings[1] # verify.bindings[2]
    /\ verify.lambda = prove.lambda
    /\ verify.lambda \notin {0, 1}

\* ------------------------------------------------- Ring-SIS hash: the coset

\* The points shift * g^k of the domain's coset.
CosetPoints(dom) ==
    [k \in 1..dom.Cardinality |->
        FMul(dom.Shift, FExp(dom.Generator, k - 1))]

\* X^d + 1 at x.
CyclotomicAt(x, d) == FAdd(FExp(x, d), 1)

\* C23 as stated: X^d + 1 is nonzero at every point of the coset
\* shift * <g> of the domain NewRSis builds.
C23_CosetAvoidsRoots ==
    Constructed =>
        \A k \in 1..r.Degree :
            CyclotomicAt(CosetPoints(r.Domain)[k], r.Degree) # 0

\* C23, amended: the shift has order 2d, so the d points of the coset are
\* distinct and X^d + 1 is zero at each of them: the coset is the set of
\* roots of X^d + 1, none of which lies in the subgroup <g>.
C23_CosetIsRootSet ==
    Constructed =>
        LET pts == CosetPoints(r.Domain) IN
        /\ r.Domain.Cardinality = r.Degree
        /\ \A k \in 1..r.Degree : CyclotomicAt(pts[k], r.Degree) = 0
        /\ \A k \in 1..r.Degree : \A l \in 1..r.Degree :
              pts[k] = pts[l] => k = l
        /\ \A k \in 1..r.Degree : \A l \in 1..r.Degree :
              pts[k] # FExp(r.Domain.Generator, l - 1)

\* An instance of degree 2, whose shift is a square root of the generator.
C23_Witness ==
    /\ Constructed
    /\ last.op = "New"
    /\ r.Degree = 2
    /\ r.Domain.Shift \notin {0, 1}
    /\ FMul(r.Domain.Shift, r.Domain.Shift) = r.Domain.Generator

\* --------------------------------------------- Ring-SIS hash: the bit packing

\* The first nbBytesToSum bytes of the buffer, zeroes where it ends earlier.
MessageOf(buffer, nbBytesToSum) ==
    [i \in 1..nbBytesToSum |-> IF i <= Len(buffer) THEN buffer[i] ELSE 0]

\* Every coefficient of m is the value of its own B bits of the stream.
PackedFrom(m, stream, B, sizeM) ==
    /\ Len(m) = sizeM
    /\ \A k \in 0..(sizeM - 1) :
          /\ m[k + 1] = ChunkValue(stream, k * B, B)
          /\ m[k + 1] < Pow2(B)

\* C24: for every k in [0, keySize*d), the coefficient m[k] Sum builds is
\* the integer whose B-bit expansion, most significant bit first, is bits
\* [k*B, (k+1)*B) of the byte stream, so that it lies in [0, 2^B) and holds
\* no bit of its neighbours.  (Stated for the bounds with 2^B below the
\* modulus, where SetBytes reduces nothing.)
C24_BitPacking ==
    (last.op = "Sum" /\ Pow2(r.LogTwoBound) <= Modulus) =>
        PackedFrom(CoefficientsOf(r, last.before),
                   MessageOf(last.before, r.NbBytesToSum),
                   r.LogTwoBound, Len(r.A) * r.Degree)

\* The same on the instances whose LogTwoBound * Degree * keySize is a
\* multiple of 8.
C24_BitPackingByteAligned ==
    (last.op = "Sum" /\ Pow2(r.LogTwoBound) <= Modulus /\ ByteAligned(r)) =>
        PackedFrom(CoefficientsOf(r, last.before),
                   MessageOf(last.before, r.NbBytesToSum),
                   r.LogTwoBound, Len(r.A) * r.Degree)

\* ------------------------------------------------ Ring-SIS hash: the message

\* C25: the message one Sum call hashes is the first NbBytesToSum bytes of
\* the buffer, right-padded with zero bytes: a shorter buffer x gives the
\* digest of x followed by zeroes up to NbBytesToSum, and a buffer x
\* followed by more bytes, len(x) = NbBytesToSum, gives the digest of x
\* alone; Sum reports no error either way.
C25_MessageIsPrefix ==
    last.op = "Sum" =>
        /\ last.ret = FreshSum(MessageOf(last.before, r.NbBytesToSum),
                               last.arg)
        /\ Len(last.ret) = Len(last.arg) + r.Degree * FrBytes
        /\ Len(last.before) < r.NbBytesToSum =>
              last.ret =
                FreshSum(last.before
                            \o Zeros(r.NbBytesToSum - Len(last.before)),
                         last.arg)
        /\ Len(last.before) > r.NbBytesToSum =>
              last.ret = FreshSum(SubSeq(last.before, 1, r.NbBytesToSum),
                                  last.arg)

\* A Sum over a buffer of two different bytes, of which it hashes one.
C25_Witness ==
    /\ last.op = "Sum"
    /\ r.NbBytesToSum = 1
    /\ Len(last.before) = 2
    /\ last.before[1] # last.before[2]
    /\ last.ret = FreshSum(<<last.before[1]>>, last.arg)
    /\ last.ret # FreshSum(<<last.before[2]>>, last.arg)

\* --------------------------------------------------- Ring-SIS hash: the key

\* The evaluations of a on the coset's points, in bit-reversed index order.
CosetNTT(dom, a) ==
    BitReverse([k \in 1..dom.Cardinality |->
                    EvalPoly(a, CosetPoints(dom)[k])])

\* C26: in every state reached from NewRSis by Write, Sum, Reset, Size and
\* MulMod calls, A and AfftCosetBitreversed hold keySize polynomials of d
\* entries each, AfftCosetBitreversed[i] is the forward coset transform of
\* A[i], and the entries of A are the ones set at construction.
C26_KeyInvariant ==
    Constructed =>
        LET d == Pow2(cfg.logTwoDegree) IN
        /\ r.Degree = d
        /\ Len(r.A) = cfg.keySize
        /\ Len(r.AfftCosetBitreversed) = cfg.keySize
        /\ \A i \in 1..cfg.keySize :
              /\ Len(r.A[i]) = d
              /\ Len(r.AfftCosetBitreversed[i]) = d
              /\ r.AfftCosetBitreversed[i] = CosetNTT(r.Domain, r.A[i])
              /\ \A j \in 1..d :
                    r.A[i][j] = genRandom(cfg.seed, i - 1, j - 1)

\* MulMod on the key of an instance of two polynomials of degree 2, after a
\* Write and a Sum.
C26_Witness ==
    /\ last.op = "MulMod"
    /\ hist.hadSum
    /\ hist.nbWrites >= 1
    /\ cfg.keySize = 2
    /\ r.Degree = 2
    /\ r.AfftCosetBitreversed[1] # r.A[1]

\* ---------------------------------------------- Ring-SIS hash: fatal paths

\* C27: after any sequence of Write, Reset and Sum calls on an instance with
\* LogTwoBound >= 1 and keySize >= 1, Sum reaches no fatal path: each of its
\* NbBytesToSum reads finds a byte and every index into mBits, m, buf and
\* res is in range, also when LogTwoBound * d * keySize is no multiple
\* of 8.
C27_SumNeverFatal ==
    (last.op = "Sum" /\ cfg.logTwoBound >= 1 /\ cfg.keySize >= 1) =>
        SumFaults([r EXCEPT !.buffer = last.before]) = {}

\* A second Sum on an instance whose bit count is no multiple of 8, over a
\* buffer that holds more than NbBytesToSum bytes.
C27_Witness ==
    /\ last.op = "Sum"
    /\ last.hist.hadSum
    /\ ~ByteAligned(r)
    /\ r.NbBytesToSum >= 1
    /\ Len(last.before) > r.NbBytesToSum

\* ------------------------------------------ SetBytes and its buffer

AllReturned == \A g \in DOMAIN race.callers : race.callers[g].pc = "done"

\* buf with the metadata bits of its first byte cleared.
FlagsCleared(c, buf) ==
    IF Len(buf) = 0 THEN buf
    ELSE [buf EXCEPT ![1] = buf[1] - BitAnd(buf[1], mMask(c))]

\* C28: called from a single goroutine, SetBytes returns with buf byte for
\* byte what it was at the call on every return path (short buffer,
\* infinity, uncompressed, compressed, no square root); buf differs in
\* between only by the metadata bits of buf[0], cleared while X is read, and
\* the call returns what SetBytes returns on the untouched buffer.  With a
\* second goroutine in SetBytes on the same buf, all that remains is that no
\* other bit than the metadata bits of buf[0] ever changes.
C28_BufferRestored ==
    race.phase = "running" =>
        /\ race.buf \in {race.orig, FlagsCleared(race.curve, race.orig)}
        /\ Cardinality(DOMAIN race.callers) = 1 =>
              LET me == race.callers[1]
                  whole == SetBytes(race.curve, race.root,
                                    [X |-> 0, Y |-> 0], race.orig)
              IN  /\ me.pc = "done" => race.buf = race.orig
                  /\ race.buf # race.orig =>
                        me.pc \in {"readX", "restoreLoad", "restoreStore"}
                  /\ me.pc \in {"clearLoad", "clearStore", "readX",
                                "restoreLoad", "restoreStore", "finish"}
                        => me.mData = BitAnd(race.orig[1], mMask(race.curve))
                  /\ me.pc = "done" =>
                        /\ me.out.n = whole.n
                        /\ me.out.err = whole.err
                        /\ whole.err = "nil" => me.out.p = whole.p

\* Two goroutines have returned from SetBytes on the same buf: one of them
\* has read buf[0] with its metadata bits cleared, and buf[0] is left with
\* them cleared.
C28_Witness ==
    /\ race.phase = "running"
    /\ Cardinality(DOMAIN race.callers) = 2
    /\ AllReturned
    /\ race.buf # race.orig
    /\ \E g \in DOMAIN race.callers :
          race.callers[g].mData
              # BitAnd(race.orig[1], mMask(race.curve))

=============================================================================
